---------------------------- MODULE Spec2Model ----------------------------
(***************************************************************************)
(* A model of the Nanocolor colour-transform engine (src/py/nanocolor.py). *)
(*                                                                         *)
(* Python floats are IEEE-754 binary64 values.  They are modelled here bit *)
(* for bit in the normal range: a float is a sign, a 53-bit mantissa and a *)
(* binary exponent, and +, -, *, / round to nearest, ties to even, as the  *)
(* hardware does.  TLC's integers are 32 bits wide, so a mantissa is kept  *)
(* as a little-endian sequence of 14-bit limbs.  Infinities, NaNs, signed  *)
(* zeros and subnormals are outside the model: no value the model handles  *)
(* comes near them.                                                        *)
(***************************************************************************)
EXTENDS Integers, Sequences, FiniteSets, TLC

VARIABLES
    library,    \* _color_space_library
    loaded,     \* the module has been imported
    inits,      \* calls of init_color_space_library made after the import
    call,       \* the last call made, with its arguments
    result,     \* what it returned
    running,    \* the entry a running init_color_space_library inserts next, 0: none runs
    held,       \* the object the caller holds a reference to
    seen        \* an earlier call and what it returned

(***************************************************************************)
(* Natural numbers of any size: little-endian limbs, no high zero limbs.   *)
(* A value that is needed more than once is passed to an operator as an    *)
(* argument, which TLC evaluates once, and carries are found by looking    *)
(* back for the limb that decides them: TLC's evaluation stack is small.   *)
(***************************************************************************)
LimbBits == 7 + 7
Base == 2^LimbBits

Min(a, b) == IF a <= b THEN a ELSE b

Max(a, b) == IF a >= b THEN a ELSE b

MaxOf(S) == CHOOSE i \in S : \A j \in S : j <= i

BLimb(a, i) == IF i >= 1 /\ i <= Len(a) THEN a[i] ELSE 0

\* a cut after its highest limb in nz, the indices of its non-zero limbs
BNormTo(a, nz) == IF nz = {} THEN <<>> ELSE SubSeq(a, 1, MaxOf(nz))

BNorm(a) ==
    IF a = <<>> THEN a
    ELSE IF a[Len(a)] # 0 THEN a
    ELSE BNormTo(a, {i \in 1..Len(a) : a[i] # 0})

RECURSIVE BFromInt(_)
BFromInt(n) == IF n = 0 THEN <<>> ELSE <<n % Base>> \o BFromInt(n \div Base)

BCmpAt(a, b, i) == IF a[i] < b[i] THEN -1 ELSE 1

\* -1, 0, 1 as a < b, a = b, a > b (both normalised)
BCmp(a, b) ==
    IF Len(a) < Len(b) THEN -1
    ELSE IF Len(a) > Len(b) THEN 1
    ELSE IF a = b THEN 0
    ELSE BCmpAt(a, b, MaxOf({i \in 1..Len(a) : a[i] # b[i]}))

\* the carry into limb i when the entries of v, each below 2 * Base - 1, are reduced below Base
CarryInto(v, i) ==
    IF i = 1 THEN 0
    ELSE IF v[i - 1] # Base - 1 THEN (IF v[i - 1] >= Base THEN 1 ELSE 0)
    ELSE IF \E j \in 1..(i - 2) : v[j] >= Base /\ \A k \in (j + 1)..(i - 2) : v[k] = Base - 1
         THEN 1 ELSE 0

Carry(v) ==
    BNorm(SubSeq([i \in 1..(Len(v) + 1) |->
                    IF i <= Len(v) THEN (v[i] + CarryInto(v, i)) % Base ELSE CarryInto(v, i)],
                 1, Len(v) + 1))

BAddTo(a, b, n) == Carry(SubSeq([i \in 1..n |-> BLimb(a, i) + BLimb(b, i)], 1, n))

BAdd(a, b) == BAddTo(a, b, Max(Len(a), Len(b)))

\* the borrow from limb i when the differences d, each between -Base and Base, are reduced
BorrowFrom(d, i) ==
    IF i = 1 THEN 0
    ELSE IF d[i - 1] # 0 THEN (IF d[i - 1] < 0 THEN 1 ELSE 0)
    ELSE IF \E j \in 1..(i - 2) : d[j] < 0 /\ \A k \in (j + 1)..(i - 2) : d[k] = 0
         THEN 1 ELSE 0

Borrow(d) ==
    BNorm(SubSeq([i \in 1..Len(d) |-> (d[i] + Base - BorrowFrom(d, i)) % Base], 1, Len(d)))

\* a - b for a >= b
BSub(a, b) == Borrow(SubSeq([i \in 1..Len(a) |-> a[i] - BLimb(b, i)], 1, Len(a)))

\* the limbs of p, each below Base^2, spread over two places
Spread(p) ==
    Carry(SubSeq([i \in 1..(Len(p) + 1) |->
                    (IF i <= Len(p) THEN p[i] % Base ELSE 0)
                    + (IF i >= 2 THEN p[i - 1] \div Base ELSE 0)], 1, Len(p) + 1))

\* a * k for 0 <= k <= Base
BMulSmall(a, k) == Spread(SubSeq([i \in 1..Len(a) |-> a[i] * k], 1, Len(a)))

\* the sum over i..Min(Len(a), k) of the low (part = 0) or high (part = 1) limbs of
\* a[i] * b[k + 1 - i], the products of column k
RECURSIVE ColSum(_, _, _, _, _)
ColSum(a, b, k, i, part) ==
    IF i > Min(Len(a), k) THEN 0
    ELSE (IF part = 0 THEN (a[i] * b[k + 1 - i]) % Base ELSE (a[i] * b[k + 1 - i]) \div Base)
         + ColSum(a, b, k, i + 1, part)

Columns(a, b, part) ==
    SubSeq([k \in 1..(Len(a) + Len(b)) |-> ColSum(a, b, k, Max(1, k + 1 - Len(b)), part)],
           1, Len(a) + Len(b))

\* the column sums from their low and high parts, each sum below Base^2
ColumnSums(lo, hi) ==
    SubSeq([k \in 1..Len(lo) |-> lo[k] + (IF k >= 2 THEN hi[k - 1] ELSE 0)], 1, Len(lo))

BMul(a, b) ==
    IF a = <<>> \/ b = <<>> THEN <<>>
    ELSE Spread(ColumnSums(Columns(a, b, 0), Columns(a, b, 1)))

LimbLen(x) == IF x = 0 THEN 0 ELSE CHOOSE k \in 1..LimbBits : x \div 2^(k - 1) = 1

BBitLen(a) == IF a = <<>> THEN 0 ELSE (Len(a) - 1) * LimbBits + LimbLen(a[Len(a)])

\* a * 2^n
BShl(a, n) ==
    IF a = <<>> THEN a
    ELSE [i \in 1..(n \div LimbBits) |-> 0] \o BMulSmall(a, 2^(n % LimbBits))

\* floor(a / 2^(q * LimbBits + r))
BShrBy(a, q, r) ==
    IF q >= Len(a) THEN <<>>
    ELSE BNorm(SubSeq([i \in 1..(Len(a) - q) |->
                         (a[i + q] \div 2^r) + (BLimb(a, i + q + 1) % 2^r) * 2^(LimbBits - r)],
                      1, Len(a) - q))

\* floor(a / 2^n)
BShr(a, n) == BShrBy(a, n \div LimbBits, n % LimbBits)

\* bit i (0 is the lowest) of a
BBit(a, i) == (BLimb(a, i \div LimbBits + 1) \div 2^(i % LimbBits)) % 2

\* some bit below bit n of a is set
BAnyLow(a, n) ==
    \/ \E i \in 1..Len(a) : i <= n \div LimbBits /\ a[i] # 0
    \/ BLimb(a, n \div LimbBits + 1) % 2^(n % LimbBits) # 0

RECURSIVE QFix(_, _, _)
QFix(cur, b, qhat) ==
    IF BCmp(BMulSmall(b, qhat), cur) > 0 THEN QFix(cur, b, qhat - 1) ELSE qhat

\* the two top limbs of cur against the top limb (number lb) of the divisor
QTop(cur, lb) == IF Len(cur) > lb THEN cur[lb + 1] * Base + cur[lb] ELSE cur[lb]

\* the quotient limb floor(cur / b), which is below Base; b's top limb is at least Base/2
QDigit(cur, b) ==
    IF BCmp(cur, b) < 0 THEN 0
    ELSE QFix(cur, b, Min(Base - 1, QTop(cur, Len(b)) \div b[Len(b)]))

\* the division state after the quotient limb d of cur is found
BDivTake(st, cur, b, d) == [q |-> <<d>> \o st.q, r |-> BSub(cur, BMulSmall(b, d))]

BDivLimb(st, cur, b) == BDivTake(st, cur, b, QDigit(cur, b))

\* long division, limb i of a downwards; st is the quotient limbs found and the remainder
RECURSIVE BDivStep(_, _, _, _)
BDivStep(a, b, i, st) ==
    IF i = 0 \/ Len(st.q) < 0 THEN st
    ELSE BDivStep(a, b, i - 1, BDivLimb(st, BNorm(<<a[i]>> \o st.r), b))

BDivFrom(as, bs) == BDivStep(as, bs, Len(as), [q |-> <<>>, r |-> <<>>])

BDivOut(qr, s) == [q |-> BNorm(qr.q), r |-> BShr(qr.r, s)]

BDivScaled(a, b, s) == BDivOut(BDivFrom(BShl(a, s), BShl(b, s)), s)

\* quotient and remainder of a by b # 0 (the divisor scaled so that its top limb is large)
BDivMod(a, b) == BDivScaled(a, b, LimbBits - LimbLen(b[Len(b)]))

(***************************************************************************)
(* binary64.  A float is (-1)^s * m * 2^e with 2^52 <= m < 2^53, or zero.  *)
(***************************************************************************)
MantBits == 50 + 3

Zero == [s |-> 0, m |-> <<>>, e |-> 0]

IsZero(x) == x.m = <<>>

\* the float (-1)^s * q1 * 2^e for q1 of MantBits bits, or of one more after a carry
RoundOut(s, q1, e) ==
    IF BBitLen(q1) > MantBits THEN [s |-> s, m |-> BShr(q1, 1), e |-> e + 1]
    ELSE [s |-> s, m |-> q1, e |-> e]

\* M of L bits cut to MantBits bits, rounded to nearest, ties to even
RoundCut(s, M, e, sticky, sh) ==
    RoundOut(s,
             IF /\ BBit(M, sh - 1) = 1
                /\ (sticky \/ BAnyLow(M, sh - 1) \/ BBit(M, sh) = 1)
             THEN BAdd(BShr(M, sh), <<1>>) ELSE BShr(M, sh),
             e + sh)

RoundLen(s, M, e, sticky, L) ==
    IF L <= MantBits
    THEN [s |-> s, m |-> BShl(M, MantBits - L), e |-> e - (MantBits - L)]
    ELSE RoundCut(s, M, e, sticky, L - MantBits)

\* the float nearest (-1)^s * (M + f) * 2^e, 0 < f < 1 when sticky and f = 0 otherwise
Round(s, M, e, sticky) == IF M = <<>> THEN Zero ELSE RoundLen(s, M, e, sticky, BBitLen(M))

FromInt(n) == Round(IF n < 0 THEN 1 ELSE 0, BFromInt(IF n < 0 THEN -n ELSE n), 0, FALSE)

FNeg(x) == IF IsZero(x) THEN x ELSE [x EXCEPT !.s = 1 - x.s]

FAbs(x) == [x EXCEPT !.s = 0]

FMul(a, b) ==
    IF IsZero(a) \/ IsZero(b) THEN Zero
    ELSE Round((a.s + b.s) % 2, BMul(a.m, b.m), a.e + b.e, FALSE)

FDivRound(a, b, qr) == Round((a.s + b.s) % 2, qr.q, a.e - b.e - (MantBits + 3), qr.r # <<>>)

\* a / b for b # 0
FDiv(a, b) ==
    IF IsZero(a) THEN Zero ELSE FDivRound(a, b, BDivMod(BShl(a.m, MantBits + 3), b.m))

\* a + b where a.m * 2^(a.e - b.e) is ma, which compares as c with b.m
\* (equal magnitudes of opposite sign leave no digits, which Round makes Zero)
FAddAligned(a, b, ma, c) ==
    Round(IF a.s = b.s \/ c > 0 THEN a.s ELSE b.s,
          IF a.s = b.s THEN BAdd(ma, b.m)
          ELSE IF c >= 0 THEN BSub(ma, b.m) ELSE BSub(b.m, ma),
          b.e, FALSE)

FAddShifted(a, b, ma) == FAddAligned(a, b, ma, BCmp(ma, b.m))

\* a + b where a.e >= b.e, neither zero
FAddOrdered(a, b) ==
    IF a.e - b.e > MantBits + 11 THEN a ELSE FAddShifted(a, b, BShl(a.m, a.e - b.e))

FAdd(a, b) ==
    IF IsZero(a) THEN b
    ELSE IF IsZero(b) THEN a
    ELSE FAddOrdered(IF a.e >= b.e THEN a ELSE b, IF a.e >= b.e THEN b ELSE a)

FSub(a, b) == FAdd(a, FNeg(b))

\* -1, 0, 1 as |a| < |b|, |a| = |b|, |a| > |b|
MagCmp(a, b) ==
    IF IsZero(a) THEN (IF IsZero(b) THEN 0 ELSE -1)
    ELSE IF IsZero(b) THEN 1
    ELSE IF a.e < b.e THEN -1
    ELSE IF a.e > b.e THEN 1
    ELSE BCmp(a.m, b.m)

Sign(x) == IF IsZero(x) THEN 0 ELSE 1 - 2 * x.s

FCmp(a, b) ==
    IF Sign(a) # Sign(b) THEN (IF Sign(a) < Sign(b) THEN -1 ELSE 1)
    ELSE Sign(a) * MagCmp(a, b)

FLt(a, b) == FCmp(a, b) < 0

FLe(a, b) == FCmp(a, b) <= 0

\* the float a decimal literal n/d denotes (n, d exact integers)
Lit(n, d) == FDiv(FromInt(n), FromInt(d))

FOne == FromInt(1)

(***************************************************************************)
(* math.log, math.exp and math.pow: the real function to FracBits binary   *)
(* places, rounded to the nearest float.  The C library's results lie      *)
(* within one unit in the last place of these.  A fixed-point number is a  *)
(* natural number of units of 2^-FracBits, or [neg, mag] with a sign.      *)
(***************************************************************************)
FracLimbs == 3 * 3
FracBits == FracLimbs * LimbBits

One == BShl(<<1>>, FracBits)

RunLength == 4 + 4

BToInt(a) == BLimb(a, 1) + BLimb(a, 2) * Base

XMul(a, b) == BShr(BMul(a, b), FracBits)

RECURSIVE BDivSmallAt(_, _, _, _)
BDivSmallAt(a, n, i, rem) ==
    IF i = 0 THEN <<>>
    ELSE BDivSmallAt(a, n, i - 1, (rem * Base + a[i]) % n) \o <<(rem * Base + a[i]) \div n>>

\* floor(a / n) for 0 < n < Base
BDivSmall(a, n) == BNorm(BDivSmallAt(a, n, Len(a), 0))

\* one more term of atanh z = sum of z^(2k+1) / (2k+1): st.p is z^(2k+1), z2 is z^2
AtanhStep(st, z2) ==
    [acc |-> BAdd(st.acc, BDivSmall(st.p, 2 * st.k + 1)), p |-> XMul(st.p, z2), k |-> st.k + 1]

\* up to n more terms, and all the terms in runs of RunLength
RECURSIVE AtanhRun(_, _, _)
AtanhRun(st, z2, n) ==
    IF n = 0 \/ st.p = <<>> THEN st ELSE AtanhRun(AtanhStep(st, z2), z2, n - 1)

RECURSIVE AtanhAll(_, _)
AtanhAll(st, z2) ==
    IF st.p = <<>> THEN st.acc ELSE AtanhAll(AtanhRun(st, z2, RunLength), z2)

AtanhOf(z) == AtanhAll([acc |-> <<>>, p |-> z, k |-> 0], XMul(z, z))

\* atanh(n / d) for naturals n < d
Atanh(n, d) == AtanhOf(BDivMod(BShl(n, FracBits), d).q)

Ln2 == BShl(Atanh(<<1>>, <<3>>), 1)

\* k ln 2 + ln f, where ln f is lf in size and negative when fneg
LnSum(k, fneg, lf, kl) ==
    IF k = 0 THEN [neg |-> fneg, mag |-> lf]
    ELSE IF (k < 0) = fneg THEN [neg |-> fneg, mag |-> BAdd(kl, lf)]
    ELSE [neg |-> k < 0, mag |-> BSub(kl, lf)]

\* ln(m * 2^k / unit) = k ln 2 + 2 atanh((m - unit) / (m + unit))
LnFrom(m, unit, k) ==
    LnSum(k, BCmp(m, unit) < 0,
          BShl(Atanh(IF BCmp(m, unit) < 0 THEN BSub(unit, m) ELSE BSub(m, unit), BAdd(m, unit)), 1),
          BMulSmall(Ln2, IF k < 0 THEN -k ELSE k))

\* ln x for a float x > 0: x = f * 2^k with 2/3 <= f < 4/3
LnFixed(x) ==
    IF BCmp(BMulSmall(x.m, 3), BShl(<<1>>, MantBits + 1)) < 0
    THEN LnFrom(x.m, BShl(<<1>>, MantBits - 1), x.e + MantBits - 1)
    ELSE LnFrom(x.m, BShl(<<1>>, MantBits), x.e + MantBits)

LogRound(l) == Round(IF l.neg THEN 1 ELSE 0, l.mag, -FracBits, FALSE)

\* math.log(x), x > 0
Log(x) == LogRound(LnFixed(x))

\* one more term of exp r = sum of r^k / k!: st.t is r^k / k!
ExpStep(st, r) ==
    [acc |-> BAdd(st.acc, st.t), t |-> BDivSmall(XMul(st.t, r), st.k + 1), k |-> st.k + 1]

RECURSIVE ExpRun(_, _, _)
ExpRun(st, r, n) ==
    IF n = 0 \/ st.t = <<>> THEN st ELSE ExpRun(ExpStep(st, r), r, n - 1)

RECURSIVE ExpAll(_, _)
ExpAll(st, r) ==
    IF st.t = <<>> THEN st.acc ELSE ExpAll(ExpRun(st, r, RunLength), r)

\* 2^j * exp r
ExpScaled(j, r) == Round(0, ExpAll([acc |-> <<>>, t |-> One, k |-> 0], r), j - FracBits, FALSE)

\* exp v for v = [neg, mag] with mag = qr.q * ln 2 + qr.r
ExpSplit(v, qr) ==
    IF v.neg /\ qr.r # <<>> THEN ExpScaled(-(BToInt(qr.q) + 1), BSub(Ln2, qr.r))
    ELSE IF v.neg THEN ExpScaled(-BToInt(qr.q), qr.r)
    ELSE ExpScaled(BToInt(qr.q), qr.r)

\* exp of the fixed-point number v = [neg, mag]: v = j ln 2 + r with 0 <= r <= ln 2
ExpFixed(v) == ExpSplit(v, BDivMod(v.mag, Ln2))

\* the fixed-point value of a float of moderate size
ToFixed(x) ==
    [neg |-> x.s = 1,
     mag |-> IF IsZero(x) THEN <<>>
             ELSE IF x.e + FracBits >= 0 THEN BShl(x.m, x.e + FracBits)
             ELSE BShr(x.m, -(x.e + FracBits))]

\* math.exp(x)
Exp(x) == ExpFixed(ToFixed(x))

\* exp(y * l) for the fixed-point number l and the float y
ExpTimes(l, y, p) ==
    ExpFixed([neg |-> l.neg # (y.s = 1),
              mag |-> IF y.e >= 0 THEN BShl(p, y.e) ELSE BShr(p, -y.e)])

PowLn(l, y) == ExpTimes(l, y, BMul(l.mag, y.m))

\* math.pow(x, y) for x >= 0 and y > 0, or y = 1
Pow(x, y) ==
    IF IsZero(x) THEN Zero
    ELSE IF y = FOne \/ x = FOne THEN x
    ELSE PowLn(LnFixed(x), y)

(***************************************************************************)
(* Python values.  An exception leaving a call is the value Raise(kind);   *)
(* None is the value None.                                                 *)
(***************************************************************************)
Raise(kind) == [raised |-> kind]

IsRaised(v) == "raised" \in DOMAIN v

None == [none |-> TRUE]

\* a Python list
List(items) == [list |-> items]

\* a Python bool
Bool(truth) == [bool |-> truth]

\* a str where None may stand instead (Optional[str])
Str(chars) == [str |-> chars]

Chromaticity(x, y) == [x |-> x, y |-> y]

RGB(r, g, b) == [r |-> r, g |-> g, b |-> b]

XYZ(x, y, z) == [x |-> x, y |-> y, z |-> z]

Yxy(Y, x, y) == [Y |-> Y, x |-> x, y |-> y]

F1e9 == FromInt(10^9)

F1em10 == FDiv(FOne, FMul(FromInt(10^5), FromInt(10^5)))

(***************************************************************************)
(* class M33f: nine floats in row major order; index i of the source is    *)
(* position i + 1 here.                                                    *)
(***************************************************************************)
M33f(m) == [m |-> m]

M33fZero == M33f([i \in 1..9 |-> Zero])

\* a * x + b * y + c * z as Python evaluates it, left to right
Dot3(a, x, b, y, c, z) == FAdd(FAdd(FMul(a, x), FMul(b, y)), FMul(c, z))

multiply(self, other) ==
    LET a(i) == self.m[i + 1]
        b(i) == other.m[i + 1]
    IN  M33f(<<Dot3(a(0), b(0), a(1), b(3), a(2), b(6)),
               Dot3(a(0), b(1), a(1), b(4), a(2), b(7)),
               Dot3(a(0), b(2), a(1), b(5), a(2), b(8)),
               Dot3(a(3), b(0), a(4), b(3), a(5), b(6)),
               Dot3(a(3), b(1), a(4), b(4), a(5), b(7)),
               Dot3(a(3), b(2), a(4), b(5), a(5), b(8)),
               Dot3(a(6), b(0), a(7), b(3), a(8), b(6)),
               Dot3(a(6), b(1), a(7), b(4), a(8), b(7)),
               Dot3(a(6), b(2), a(7), b(5), a(8), b(8))>>)

\* a * b - c * d
Minor(a, b, c, d) == FSub(FMul(a, b), FMul(c, d))

\* the determinant invert computes; M0..M8 of the source are 0,3,6, 1,4,7, 2,5,8
Det(self) ==
    LET x(i) == self.m[i + 1]
    IN  FAdd(FSub(FMul(x(0), Minor(x(4), x(8), x(7), x(5))),
                  FMul(x(3), Minor(x(1), x(8), x(7), x(2)))),
             FMul(x(6), Minor(x(1), x(5), x(4), x(2))))

InvertThreshold == F1em10

\* the matrix invert fills in from the operand and invdet
Adjugate(self, invdet) ==
    LET x(i) == self.m[i + 1]
    IN  M33f(<<FMul(Minor(x(4), x(8), x(7), x(5)), invdet),
               FMul(Minor(x(7), x(2), x(1), x(8)), invdet),
               FMul(Minor(x(1), x(5), x(4), x(2)), invdet),
               FMul(Minor(x(6), x(5), x(3), x(8)), invdet),
               FMul(Minor(x(0), x(8), x(6), x(2)), invdet),
               FMul(Minor(x(3), x(2), x(0), x(5)), invdet),
               FMul(Minor(x(3), x(7), x(6), x(4)), invdet),
               FMul(Minor(x(6), x(1), x(0), x(7)), invdet),
               FMul(Minor(x(0), x(4), x(3), x(1)), invdet)>>)

\* an invert that refused only a determinant of zero
InvertWithZeroOnly(self, det) ==
    IF IsZero(det) THEN Raise("ValueError")
    ELSE Adjugate(self, FDiv(FOne, det))

InvertWith(self, det) ==
    IF FLt(FAbs(det), InvertThreshold) THEN Raise("ValueError")
    ELSE Adjugate(self, FDiv(FOne, det))

invert(self) == InvertWith(self, Det(self))

transform_rgb(self, rgb) ==
    LET x(i) == self.m[i + 1]
    IN  RGB(Dot3(x(0), rgb.r, x(1), rgb.g, x(2), rgb.b),
            Dot3(x(3), rgb.r, x(4), rgb.g, x(5), rgb.b),
            Dot3(x(6), rgb.r, x(7), rgb.g, x(8), rgb.b))

(***************************************************************************)
(* The descriptors and class ColorSpace.                                   *)
(***************************************************************************)
ColorSpaceDescriptor(name, red_primary, green_primary, blue_primary, white_point, gamma, linear_bias) ==
    [name |-> name, red_primary |-> red_primary, green_primary |-> green_primary,
     blue_primary |-> blue_primary, white_point |-> white_point,
     gamma |-> gamma, linear_bias |-> linear_bias]

ColorSpaceM33Descriptor(name, rgb_to_xyz, gamma, linear_bias) ==
    [name |-> name, rgb_to_xyz |-> rgb_to_xyz, gamma |-> gamma, linear_bias |-> linear_bias]

\* an _initialize that left phi at 1 for every space
TransferParametersUnitPhi(descriptor) ==
    LET a     == descriptor.linear_bias
        gamma == descriptor.gamma
    IN  IF gamma = FOne THEN [k0 |-> F1e9, phi |-> FOne]
        ELSE IF FLe(a, Zero) THEN [k0 |-> Zero, phi |-> FOne]
        ELSE [k0 |-> FDiv(a, FSub(gamma, FOne)), phi |-> FOne]

\* k0 and phi as _initialize sets them from gamma and linear_bias
TransferParameters(descriptor) ==
    LET a     == descriptor.linear_bias
        gamma == descriptor.gamma
    IN  IF gamma = FOne THEN [k0 |-> F1e9, phi |-> FOne]
        ELSE IF FLe(a, Zero) THEN [k0 |-> Zero, phi |-> FOne]
        ELSE [k0  |-> FDiv(a, FSub(gamma, FOne)),
              phi |-> FDiv(FDiv(a, Exp(FMul(Log(FDiv(FMul(gamma, a),
                                                     FSub(FSub(FAdd(gamma, FMul(gamma, a)), FOne), a))),
                                            gamma))),
                           FSub(gamma, FOne))]

\* the column [x, y, 1 - x - y] of a chromaticity
Column(c) == <<c.x, c.y, FSub(FSub(FOne, c.x), c.y)>>

\* P with its rows scaled by the coefficients C
ScaleRows(p, C) ==
    M33f(<<FMul(p.m[1], C[1]), FMul(p.m[2], C[1]), FMul(p.m[3], C[1]),
           FMul(p.m[4], C[2]), FMul(p.m[5], C[2]), FMul(p.m[6], C[2]),
           FMul(p.m[7], C[3]), FMul(p.m[8], C[3]), FMul(p.m[9], C[3])>>)

\* P with its columns scaled by the coefficients C
ScaleColumns(p, C) ==
    M33f(<<FMul(p.m[1], C[1]), FMul(p.m[2], C[2]), FMul(p.m[3], C[3]),
           FMul(p.m[4], C[1]), FMul(p.m[5], C[2]), FMul(p.m[6], C[3]),
           FMul(p.m[7], C[1]), FMul(p.m[8], C[2]), FMul(p.m[9], C[3])>>)

\* the coefficients C = p_inv * W, and the matrix they give
Coefficients(p_inv, W) ==
    <<Dot3(p_inv.m[1], W[1], p_inv.m[2], W[2], p_inv.m[3], W[3]),
      Dot3(p_inv.m[4], W[1], p_inv.m[5], W[2], p_inv.m[6], W[3]),
      Dot3(p_inv.m[7], W[1], p_inv.m[8], W[2], p_inv.m[9], W[3])>>

WithInverse(p, p_inv, W) ==
    IF IsRaised(p_inv) THEN p_inv ELSE ScaleColumns(p, Coefficients(p_inv, W))

\* from the matrix P and the white column on: W = white / white[1], then p.invert()
WithWhite(p, white) ==
    IF IsZero(white[2]) THEN Raise("ZeroDivisionError")
    ELSE WithInverse(p, invert(p),
                     <<FDiv(white[1], white[2]), FDiv(white[2], white[2]), FDiv(white[3], white[2])>>)

BindColumns(red, green, blue) ==
    M33f(<<red[1], green[1], blue[1],
           red[2], green[2], blue[2],
           red[3], green[3], blue[3]>>)

\* the matrix _initialize derives from the primaries and the white point (SMPTE RP 177-1993)
PrimariesMatrix(descriptor) ==
    WithWhite(BindColumns(Column(descriptor.red_primary), Column(descriptor.green_primary),
                          Column(descriptor.blue_primary)),
              Column(descriptor.white_point))

\* the object with k0 and phi set, then the matrix unless the white point's x is zero
SetMatrix(me, m) == IF IsRaised(m) THEN m ELSE [me EXCEPT !.rgb_to_xyz = m]

SetTransfer(self, t) == [self EXCEPT !.k0 = t.k0, !.phi = t.phi]

\* _initialize on the object __init__ has filled in: the object afterwards, or the exception
initialize(self) ==
    IF IsZero(self.descriptor.white_point.x)
    THEN SetTransfer(self, TransferParameters(self.descriptor))
    ELSE SetMatrix(SetTransfer(self, TransferParameters(self.descriptor)),
                   PrimariesMatrix(self.descriptor))

\* ColorSpace(descriptor): __init__
ColorSpace(descriptor) ==
    initialize([descriptor |-> descriptor, k0 |-> Zero, phi |-> Zero, rgb_to_xyz |-> M33fZero])

from_matrix(descriptor) ==
    LET dummy_desc == ColorSpaceDescriptor(descriptor.name,
                                           Chromaticity(Zero, Zero), Chromaticity(Zero, Zero),
                                           Chromaticity(Zero, Zero), Chromaticity(Zero, Zero),
                                           descriptor.gamma, descriptor.linear_bias)
        cs         == ColorSpace(dummy_desc)
    IN  [cs EXCEPT !.rgb_to_xyz = descriptor.rgb_to_xyz]

\* a from_linear that encoded only what lies in [0, 1]
FromLinearClamped(self, t) ==
    LET a == self.descriptor.linear_bias
        u == IF FLt(t, Zero) THEN Zero ELSE IF FLt(FOne, t) THEN FOne ELSE t
    IN  IF FLt(u, FDiv(self.k0, self.phi)) THEN FMul(u, self.phi)
        ELSE FSub(FMul(FAdd(FOne, a), Pow(u, FDiv(FOne, self.descriptor.gamma))), a)

\* a from_linear that left the bias in
FromLinearUnbiased(self, t) ==
    IF FLt(t, FDiv(self.k0, self.phi)) THEN FMul(t, self.phi)
    ELSE FMul(FAdd(FOne, self.descriptor.linear_bias), Pow(t, FDiv(FOne, self.descriptor.gamma)))

\* a to_linear without the linear segment below k0
ToLinearPower(self, t) ==
    LET a == self.descriptor.linear_bias
    IN  Pow(FDiv(FAdd(t, a), FAdd(FOne, a)), self.descriptor.gamma)

\* math.pow(t, 1.0 / gamma) and math.pow(u, gamma) are taken for t, u >= 0 or exponent 1
from_linear(self, t) ==
    IF FLt(t, FDiv(self.k0, self.phi)) THEN FMul(t, self.phi)
    ELSE LET a == self.descriptor.linear_bias
         IN  FSub(FMul(FAdd(FOne, a), Pow(t, FDiv(FOne, self.descriptor.gamma))), a)

to_linear(self, t) ==
    IF FLt(t, self.k0) THEN FDiv(t, self.phi)
    ELSE LET a == self.descriptor.linear_bias
         IN  Pow(FDiv(FAdd(t, a), FAdd(FOne, a)), self.descriptor.gamma)

get_rgb_to_xyz_matrix(self) == self.rgb_to_xyz

get_xyz_to_rgb_matrix(self) == invert(self.rgb_to_xyz)

\* dst.get_xyz_to_rgb_matrix().multiply(self.rgb_to_xyz), or the exception invert raised
RgbToRgbWith(self, xyz_to_rgb_matrix) ==
    IF IsRaised(xyz_to_rgb_matrix) THEN xyz_to_rgb_matrix
    ELSE multiply(xyz_to_rgb_matrix, self.rgb_to_xyz)

get_rgb_to_rgb_matrix(self, dst) == RgbToRgbWith(self, get_xyz_to_rgb_matrix(dst))

WP_D65 == Chromaticity(Lit(3127, 10000), Lit(3290, 10000))

WP_ACES == Chromaticity(Lit(32168, 100000), Lit(33767, 100000))

\* the chromaticity (x / 100000, y / 100000) written as decimals
Chroma5(x, y) == Chromaticity(Lit(x, 100000), Lit(y, 100000))

Third == FDiv(FOne, FromInt(3))

\* A descriptor written as a row of integers: the name, the red, green and blue
\* primaries' x and y in units of 0.00001, the white point's x and y as numerators
\* over the denominator that follows them, gamma in tenths, linear_bias in thousandths.
Describe(row) ==
    ColorSpaceDescriptor(row[1], Chroma5(row[2], row[3]), Chroma5(row[4], row[5]),
                         Chroma5(row[6], row[7]),
                         Chromaticity(Lit(row[8], row[10]), Lit(row[9], row[10])),
                         Lit(row[11], 10), Lit(row[12], 1000))

DescribeAll(rows) == SubSeq([i \in 1..Len(rows) |-> Describe(rows[i])], 1, Len(rows))

\* the table's entries, in the order the dict holds them; every key is its descriptor's
\* name; WP_ACES is (32168, 33767) / 100000, WP_D65 is (31270, 32900) / 100000, and the
\* white point of identity and raw is (1.0 / 3.0, 1.0 / 3.0)
ColorSpaceRows ==
    <<<<"acescg", 71300, 29300, 16500, 83000, 12800, 4400, 32168, 33767, 100000, 10, 0>>,
      <<"adobergb", 64000, 33000, 21000, 71000, 15000, 6000, 31270, 32900, 100000, 22, 0>>,
      <<"g18_ap1", 71300, 29300, 16500, 83000, 12800, 4400, 32168, 33767, 100000, 18, 0>>,
      <<"g18_rec709", 64000, 33000, 30000, 60000, 15000, 6000, 31270, 32900, 100000, 18, 0>>,
      <<"g22_ap1", 71300, 29300, 16500, 83000, 12800, 4400, 32168, 33767, 100000, 22, 0>>,
      <<"g22_rec709", 64000, 33000, 30000, 60000, 15000, 6000, 31270, 32900, 100000, 22, 0>>,
      <<"lin_adobergb", 64000, 33000, 21000, 71000, 15000, 6000, 31270, 32900, 100000, 10, 0>>,
      <<"lin_ap0", 73470, 26530, 0, 100000, 10, -7700, 32168, 33767, 100000, 10, 0>>,
      <<"lin_ap1", 71300, 29300, 16500, 83000, 12800, 4400, 32168, 33767, 100000, 10, 0>>,
      <<"lin_displayp3", 68000, 32000, 26500, 69000, 15000, 6000, 31270, 32900, 100000, 10, 0>>,
      <<"lin_rec709", 64000, 33000, 30000, 60000, 15000, 6000, 31270, 32900, 100000, 10, 0>>,
      <<"lin_rec2020", 70800, 29200, 17000, 79700, 13100, 4600, 31270, 32900, 100000, 10, 0>>,
      <<"lin_srgb", 64000, 33000, 30000, 60000, 15000, 6000, 31270, 32900, 100000, 10, 0>>,
      <<"srgb_displayp3", 68000, 32000, 26500, 69000, 15000, 6000, 31270, 32900, 100000, 24, 55>>,
      <<"sRGB", 64000, 33000, 30000, 60000, 15000, 6000, 31270, 32900, 100000, 24, 55>>,
      <<"srgb_texture", 64000, 33000, 30000, 60000, 15000, 6000, 31270, 32900, 100000, 24, 55>>,
      <<"identity", 100000, 0, 0, 100000, 0, 0, 1, 1, 3, 10, 0>>,
      <<"raw", 100000, 0, 0, 100000, 0, 0, 1, 1, 3, 10, 0>>>>

COLOR_SPACES == DescribeAll(ColorSpaceRows)

(***************************************************************************)
(* The library: the dict _color_space_library as the sequence of its       *)
(* entries in insertion order.                                             *)
(***************************************************************************)
Keys(d) == [i \in 1..Len(d) |-> d[i].key]

HasKey(d, key) == \E i \in 1..Len(d) : d[i].key = key

\* a get that returned the first value for any key present
DictGetFirst(d, key) == IF HasKey(d, key) THEN d[1].value ELSE None

\* d.get(key)
DictGet(d, key) ==
    IF HasKey(d, key) THEN d[CHOOSE i \in 1..Len(d) : d[i].key = key].value ELSE None

\* d[key] = value
DictSet(d, key, value) ==
    IF HasKey(d, key)
    THEN [i \in 1..Len(d) |-> IF d[i].key = key THEN [key |-> key, value |-> value] ELSE d[i]]
    ELSE Append(d, [key |-> key, value |-> value])

\* ColorSpace(descriptor) for each descriptor of a table, in the table's order
Build(table) == SubSeq([i \in 1..Len(table) |-> ColorSpace(table[i])], 1, Len(table))

\* ColorSpace(descriptor) for each entry of COLOR_SPACES; the table is constant, and
\* ColorSpace reads nothing but its descriptor, so these are constant too
Constructed == Build(COLOR_SPACES)

\* the loop of init_color_space_library from entry i on, spaces[i] being
\* ColorSpace(descriptor) for entry i, whose key is the descriptor's name
RECURSIVE Populate(_, _, _)
Populate(d, spaces, i) ==
    IF i > Len(spaces) THEN d
    ELSE Populate(DictSet(d, spaces[i].descriptor.name, spaces[i]), spaces, i + 1)

\* d.clear()
DictClear(d) == <<>>

\* an init_color_space_library that added its entries to those already there
InitAppending(lib) == lib \o Populate(<<>>, Constructed, 1)

\* the library after init_color_space_library() has run on the library lib
init_color_space_library(lib) == Populate(DictClear(lib), Constructed, 1)

registered_color_space_names(lib) == List(Keys(lib))

\* a lookup by lib[name], which raises for a missing key
GetNamedStrict(lib, name) == IF HasKey(lib, name) THEN DictGet(lib, name) ELSE Raise("KeyError")

get_named_color_space(lib, name) == DictGet(lib, name)

create_color_space(descriptor) == ColorSpace(descriptor)

create_color_space_m33(descriptor) == from_matrix(descriptor)

(***************************************************************************)
(* The conversions.                                                        *)
(***************************************************************************)
ToLinearRGB(cs, rgb) == RGB(to_linear(cs, rgb.r), to_linear(cs, rgb.g), to_linear(cs, rgb.b))

FromLinearRGB(cs, rgb) ==
    RGB(from_linear(cs, rgb.r), from_linear(cs, rgb.g), from_linear(cs, rgb.b))

\* transform_color once dst.get_xyz_to_rgb_matrix() has returned or raised
TransformWith(dst, src, linear_rgb, xyz_to_rgb_matrix) ==
    IF IsRaised(xyz_to_rgb_matrix) THEN xyz_to_rgb_matrix
    ELSE FromLinearRGB(dst, transform_rgb(multiply(xyz_to_rgb_matrix, get_rgb_to_xyz_matrix(src)),
                                          linear_rgb))

\* a transform_color that inverted the source's matrix and applied the destination's
TransformColorInverse(dst, src, rgb) ==
    TransformWith(src, dst, ToLinearRGB(src, rgb), get_xyz_to_rgb_matrix(src))

transform_color(dst, src, rgb) ==
    TransformWith(dst, src, ToLinearRGB(src, rgb), get_xyz_to_rgb_matrix(dst))

\* the matrix applied to a colour's three components
Apply(matrix, a, b, c) ==
    <<Dot3(matrix.m[1], a, matrix.m[2], b, matrix.m[3], c),
      Dot3(matrix.m[4], a, matrix.m[5], b, matrix.m[6], c),
      Dot3(matrix.m[7], a, matrix.m[8], b, matrix.m[9], c)>>

AsXYZ(v) == XYZ(v[1], v[2], v[3])

RgbToXyzLinear(matrix, linear_rgb) ==
    AsXYZ(Apply(matrix, linear_rgb.r, linear_rgb.g, linear_rgb.b))

rgb_to_xyz(cs, rgb) == RgbToXyzLinear(get_rgb_to_xyz_matrix(cs), ToLinearRGB(cs, rgb))

EncodeLinear(cs, v) == RGB(from_linear(cs, v[1]), from_linear(cs, v[2]), from_linear(cs, v[3]))

XyzToRgbWith(cs, xyz, matrix) ==
    IF IsRaised(matrix) THEN matrix ELSE EncodeLinear(cs, Apply(matrix, xyz.x, xyz.y, xyz.z))

xyz_to_rgb(cs, xyz) == XyzToRgbWith(cs, xyz, get_xyz_to_rgb_matrix(cs))

XyzToYxySum(xyz, sum_xyz) ==
    IF IsZero(sum_xyz) THEN Yxy(xyz.y, Zero, Zero)
    ELSE Yxy(xyz.y, FDiv(xyz.x, sum_xyz), FDiv(xyz.y, sum_xyz))

\* an xyz_to_yxy that divided by the sum whatever it is
XyzToYxyDividing(xyz) ==
    IF IsZero(FAdd(FAdd(xyz.x, xyz.y), xyz.z)) THEN Raise("ZeroDivisionError")
    ELSE XyzToYxySum(xyz, FAdd(FAdd(xyz.x, xyz.y), xyz.z))

\* an xyz_to_yxy that kept one Yxy object for all its calls and filled it only when the
\* caller held no Yxy yet
XyzToYxyShared(xyz) ==
    IF "Y" \in DOMAIN result THEN result
    ELSE XyzToYxySum(xyz, FAdd(FAdd(xyz.x, xyz.y), xyz.z))

xyz_to_yxy(xyz) == XyzToYxySum(xyz, FAdd(FAdd(xyz.x, xyz.y), xyz.z))

\* a yxy_to_xyz that took z for 1 - x
YxyToXyzShort(yxy) ==
    IF IsZero(yxy.y) THEN XYZ(Zero, Zero, Zero)
    ELSE XYZ(FDiv(FMul(yxy.Y, yxy.x), yxy.y),
             yxy.Y,
             FDiv(FMul(yxy.Y, FSub(FOne, yxy.x)), yxy.y))

yxy_to_xyz(yxy) ==
    IF IsZero(yxy.y) THEN XYZ(Zero, Zero, Zero)
    ELSE XYZ(FDiv(FMul(yxy.Y, yxy.x), yxy.y),
             yxy.Y,
             FDiv(FMul(yxy.Y, FSub(FSub(FOne, yxy.x), yxy.y)), yxy.y))

yxy_to_rgb(cs, yxy) == xyz_to_rgb(cs, yxy_to_xyz(yxy))

\* the list comprehension over rgb_list, a sequence of colours
transform_colors(dst, src, rgb_list) ==
    List([i \in 1..Len(rgb_list) |-> transform_color(dst, src, rgb_list[i])])

(***************************************************************************)
(* kelvin_to_yxy.  Python's max(a, b) and min(a, b) return a unless b is   *)
(* larger, respectively smaller.                                           *)
(***************************************************************************)
PyMax(a, b) == IF FLt(a, b) THEN b ELSE a

PyMin(a, b) == IF FLt(b, a) THEN b ELSE a

F1e3 == FromInt(1000)

F1e6 == FromInt(10^6)

KelvinClampBelow(temperature) == PyMax(FromInt(1000), temperature)

KelvinClamp(temperature) == PyMax(FromInt(1000), PyMin(FromInt(15000), temperature))

Cube(t) == FMul(FMul(t, t), t)

\* c3 * (1e9 / temp^3) - c2 * (1e6 / temp^2) + c1 * (1e3 / temp) + c0, c3 already negated
KelvinXPoly(temp, c3, c2, c1, c0) ==
    FAdd(FAdd(FSub(FMul(c3, FDiv(F1e9, Cube(temp))),
                   FMul(c2, FDiv(F1e6, FMul(temp, temp)))),
              FMul(c1, FDiv(F1e3, temp))),
         c0)

KelvinX(temp) ==
    IF FLt(temp, FromInt(4000))
    THEN KelvinXPoly(temp, FNeg(Lit(2661239, 10^7)), Lit(2343589, 10^7),
                     Lit(8776956, 10^7), Lit(17991, 10^5))
    ELSE KelvinXPoly(temp, FNeg(Lit(30258469, 10^7)), FNeg(Lit(21070379, 10^7)),
                     Lit(2226347, 10^7), Lit(24039, 10^5))

\* c3 * x^3 - c2 * x^2 + c1 * x - c0
KelvinYPoly(x, c3, c2, c1, c0) ==
    FSub(FAdd(FSub(FMul(c3, Cube(x)), FMul(c2, FMul(x, x))), FMul(c1, x)), c0)

KelvinY(temp, x) ==
    IF FLt(temp, FromInt(2222))
    THEN KelvinYPoly(x, FNeg(Lit(11063814, 10^7)), Lit(134811020, 10^8),
                     Lit(218555832, 10^8), Lit(20219683, 10^8))
    ELSE IF FLt(temp, FromInt(4000))
    THEN KelvinYPoly(x, FNeg(Lit(9549476, 10^7)), Lit(137418593, 10^8),
                     Lit(209137015, 10^8), Lit(16748867, 10^8))
    ELSE KelvinYPoly(x, Lit(30817580, 10^7), Lit(587338670, 10^8),
                     Lit(375112997, 10^8), Lit(37001483, 10^8))

KelvinAt(temp, luminosity, x) == Yxy(luminosity, x, KelvinY(temp, x))

KelvinClamped(temp, luminosity) == KelvinAt(temp, luminosity, KelvinX(temp))

kelvin_to_yxy(temperature, luminosity) == KelvinClamped(KelvinClamp(temperature), luminosity)

(***************************************************************************)
(* match_linear_color_space: the scan of COLOR_SPACES in its order.        *)
(***************************************************************************)
chromaticity_close(c1, c2, eps) ==
    FLt(FAbs(FSub(c1.x, c2.x)), eps) /\ FLt(FAbs(FSub(c1.y, c2.y)), eps)

DefaultEpsilon == Lit(1, 10^4)

MatchesAnyGamma(descriptor, red_primary, green_primary, blue_primary, white_point, epsilon) ==
    /\ chromaticity_close(descriptor.red_primary, red_primary, epsilon)
    /\ chromaticity_close(descriptor.green_primary, green_primary, epsilon)
    /\ chromaticity_close(descriptor.blue_primary, blue_primary, epsilon)
    /\ chromaticity_close(descriptor.white_point, white_point, epsilon)

\* the body of the loop for one entry: it is skipped, or it is the one returned
Matches(descriptor, red_primary, green_primary, blue_primary, white_point, epsilon) ==
    /\ descriptor.gamma = FOne
    /\ chromaticity_close(descriptor.red_primary, red_primary, epsilon)
    /\ chromaticity_close(descriptor.green_primary, green_primary, epsilon)
    /\ chromaticity_close(descriptor.blue_primary, blue_primary, epsilon)
    /\ chromaticity_close(descriptor.white_point, white_point, epsilon)

\* the scan that keeps the last match instead of returning the first
MatchLast(table, i, red_primary, green_primary, blue_primary, white_point, epsilon) ==
    IF \A j \in i..Len(table) :
           ~Matches(table[j], red_primary, green_primary, blue_primary, white_point, epsilon)
    THEN None
    ELSE Str(table[MaxOf({j \in i..Len(table) :
                        Matches(table[j], red_primary, green_primary, blue_primary,
                                white_point, epsilon)})].name)

\* the loop from entry i of the table on
RECURSIVE MatchFrom(_, _, _, _, _, _, _)
MatchFrom(table, i, red_primary, green_primary, blue_primary, white_point, epsilon) ==
    IF i > Len(table) THEN None
    ELSE IF Matches(table[i], red_primary, green_primary, blue_primary, white_point, epsilon)
    THEN Str(table[i].name)
    ELSE MatchFrom(table, i + 1, red_primary, green_primary, blue_primary, white_point, epsilon)

match_linear_color_space(red_primary, green_primary, blue_primary, white_point, epsilon) ==
    MatchFrom(COLOR_SPACES, 1, red_primary, green_primary, blue_primary, white_point, epsilon)

(***************************************************************************)
(* ColorSpace.__eq__                                                       *)
(***************************************************************************)
IsColorSpace(v) == "descriptor" \in DOMAIN v

\* an __eq__ that compared every attribute
ColorSpaceEqAll(self, other) == self = other

ColorSpaceEq(self, other) ==
    IF ~IsColorSpace(other) THEN FALSE
    ELSE /\ self.descriptor.name = other.descriptor.name
         /\ self.descriptor.gamma = other.descriptor.gamma
         /\ self.descriptor.linear_bias = other.descriptor.linear_bias

(***************************************************************************)
(* The engine in use by one thread.  The module is imported, which runs    *)
(* init_color_space_library (line 506); then the caller makes calls.       *)
(*   library  the dict _color_space_library                                *)
(*   loaded   the import has finished                                      *)
(*   inits    the calls of init_color_space_library made by the caller     *)
(*   call     the last call made, with its arguments                       *)
(*   result   what the last call returned                                  *)
(***************************************************************************)
vars == <<library, loaded, inits, call, result, running, held, seen>>

\* what only some of the callers below use
rest == <<running, held, seen>>

MaxInits == 2

\* names a caller looks up: every key of the table, and names that are no key
MissingNames == {"", "srgb", "lin_rec709 ", "custom"}

\* the keys of COLOR_SPACES
BuiltinNames ==
    {"acescg", "adobergb", "g18_ap1", "g18_rec709", "g22_ap1", "g22_rec709", "lin_adobergb",
     "lin_ap0", "lin_ap1", "lin_displayp3", "lin_rec709", "lin_rec2020", "lin_srgb",
     "srgb_displayp3", "sRGB", "srgb_texture", "identity", "raw"}

LookupNames == BuiltinNames \cup MissingNames

\* descriptors a caller makes up, as rows: a well-formed one; one with the name, gamma
\* and linear_bias of a built-in but other primaries; one with gamma 1 and a bias; white
\* points with x = 0 and with y = 0; and collinear primaries
AdHocRows ==
    <<<<"custom", 64000, 33000, 30000, 60000, 15000, 6000, 31270, 32900, 100000, 26, 0>>,
      <<"sRGB", 64000, 33000, 21000, 71000, 15000, 6000, 31270, 32900, 100000, 24, 55>>,
      <<"biased", 64000, 33000, 30000, 60000, 15000, 6000, 31270, 32900, 100000, 10, 55>>,
      <<"white_x0", 64000, 33000, 30000, 60000, 15000, 6000, 0, 32900, 100000, 10, 0>>,
      <<"white_y0", 64000, 33000, 30000, 60000, 15000, 6000, 31270, 0, 100000, 10, 0>>,
      <<"collinear", 64000, 33000, 64000, 33000, 15000, 6000, 31270, 32900, 100000, 10, 0>>>>

AdHocDescriptors == DescribeAll(AdHocRows)

Diagonal(a, b, c) == M33f(<<a, Zero, Zero, Zero, b, Zero, Zero, Zero, c>>)

\* matrix descriptors a caller makes up: the unit matrix, the all-zero matrix, and a
\* diagonal matrix whose determinant 1e-12 is not zero but below invert's threshold
AdHocM33Descriptors ==
    <<ColorSpaceM33Descriptor("unit", Diagonal(FOne, FOne, FOne), FOne, Zero),
      ColorSpaceM33Descriptor("zero", M33fZero, FOne, Zero),
      ColorSpaceM33Descriptor("small", Diagonal(Lit(1, 10000), Lit(1, 10000), Lit(1, 10000)),
                              Lit(22, 10), Zero)>>

\* what create_color_space and create_color_space_m33 return for these (constant)
CreateAll(descriptors) ==
    SubSeq([i \in 1..Len(descriptors) |->
               [descriptor |-> descriptors[i], returned |-> create_color_space(descriptors[i])]],
           1, Len(descriptors))

CreateAllM33(descriptors) ==
    SubSeq([i \in 1..Len(descriptors) |->
               [descriptor |-> descriptors[i], returned |-> create_color_space_m33(descriptors[i])]],
           1, Len(descriptors))

Created == CreateAll(AdHocDescriptors)

CreatedM33 == CreateAllM33(AdHocM33Descriptors)


\* colours a caller converts
SampleColors == {RGB(FOne, FOne, FOne), RGB(Lit(1, 2), Lit(1, 4), Lit(3, 4))}

Init ==
    /\ library = <<>>
    /\ loaded = FALSE
    /\ inits = 0
    /\ call = [op |-> "import"]
    /\ result = None
    /\ running = 0
    /\ held = None
    /\ seen = None

\* line 506, run by the import
LoadModule ==
    /\ ~loaded
    /\ library' = init_color_space_library(library)
    /\ loaded' = TRUE
    /\ UNCHANGED <<inits, call, result, rest>>

InitColorSpaceLibrary ==
    /\ loaded
    /\ inits < MaxInits
    /\ library' = init_color_space_library(library)
    /\ inits' = inits + 1
    /\ call' = [op |-> "init_color_space_library"]
    /\ result' = None
    /\ UNCHANGED <<loaded, rest>>

RegisteredColorSpaceNames ==
    /\ loaded
    /\ call' = [op |-> "registered_color_space_names"]
    /\ result' = registered_color_space_names(library)
    /\ UNCHANGED <<library, loaded, inits, rest>>

GetNamedColorSpace(name) ==
    /\ loaded
    /\ call' = [op |-> "get_named_color_space", name |-> name]
    /\ result' = get_named_color_space(library, name)
    /\ UNCHANGED <<library, loaded, inits, rest>>

\* a registry that also held the ColorSpace under its descriptor's name
Registering(lib, cs) == DictSet(lib, cs.descriptor.name, cs)

\* _color_space_library after create_color_space or create_color_space_m33 returned cs:
\* neither function names the dict
Creating(lib, cs) == lib

CreateColorSpaceDone(created) ==
    /\ call' = [op |-> "create_color_space", descriptor |-> created.descriptor]
    /\ result' = created.returned
    /\ library' = Creating(library, created.returned)
    /\ UNCHANGED <<loaded, inits, rest>>

CreateColorSpace(i) ==
    /\ loaded
    /\ CreateColorSpaceDone(Created[i])

CreateColorSpaceM33Done(created) ==
    /\ call' = [op |-> "create_color_space_m33", descriptor |-> created.descriptor]
    /\ result' = created.returned
    /\ library' = Creating(library, created.returned)
    /\ UNCHANGED <<loaded, inits, rest>>

CreateColorSpaceM33(i) ==
    /\ loaded
    /\ CreateColorSpaceM33Done(CreatedM33[i])

\* rgb_to_xyz with the ColorSpace the last call returned
RgbToXyz(rgb) ==
    /\ loaded
    /\ IsColorSpace(result)
    /\ call' = [op |-> "rgb_to_xyz", cs |-> result, rgb |-> rgb]
    /\ result' = rgb_to_xyz(result, rgb)
    /\ UNCHANGED <<library, loaded, inits, rest>>

Next ==
    \/ LoadModule
    \/ InitColorSpaceLibrary
    \/ RegisteredColorSpaceNames
    \/ \E name \in LookupNames : GetNamedColorSpace(name)
    \/ \E i \in 1..Len(AdHocRows) : CreateColorSpace(i)
    \/ \E i \in 1..Len(AdHocM33Descriptors) : CreateColorSpaceM33(i)
    \/ \E rgb \in SampleColors : RgbToXyz(rgb)

Spec == Init /\ [][Next]_vars

\* the registry the import leaves
Registry == init_color_space_library(<<>>)

CreateOps == {"create_color_space", "create_color_space_m33"}

\* C1: init is idempotent: after the import and any number of calls of
\* init_color_space_library, with lookups, listings, creations and conversions between
\* them, the registry holds exactly the 18 names of the table, each with the ColorSpace
\* built from its descriptor: the state after n calls is the state after one.
C1_InitIdempotent ==
    loaded =>
        /\ Len(library) = Len(COLOR_SPACES)
        /\ {library[i].key : i \in 1..Len(library)} = BuiltinNames
        /\ Cardinality(BuiltinNames) = 18
        /\ \A i \in 1..Len(library) :
              /\ library[i].key = COLOR_SPACES[i].name
              /\ library[i].value = Constructed[i]
        /\ (call.op = "registered_color_space_names") => result = List(Keys(Registry))

C1_Witness ==
    /\ inits = 2
    /\ call.op = "init_color_space_library"
    /\ library = Registry
    /\ Len(library) = 18

\* C13: create_color_space and create_color_space_m33 do not register what they build:
\* the call leaves the registry's keys and the object under each key as they were, also
\* for a descriptor named like a built-in, and a lookup of a built-in name made after it
\* still returns the built-in space.
C13_CreateDoesNotRegister ==
    /\ [][call'.op \in CreateOps => library' = library]_vars
    /\ [](loaded => /\ library = Registry
                    /\ (call.op = "get_named_color_space" /\ call.name \in BuiltinNames) =>
                           result = DictGet(Registry, call.name))

C13_Witness ==
    /\ call.op = "create_color_space"
    /\ call.descriptor.name = "sRGB"
    /\ IsColorSpace(result)
    /\ HasKey(library, "sRGB")
    /\ get_named_color_space(library, "sRGB") # result
    /\ get_named_color_space(library, "sRGB") = DictGet(Registry, "sRGB")

(***************************************************************************)
(* A function called once: the state is the module after its import, call  *)
(* is the call being made with its arguments, and result is Pending until  *)
(* the call has returned.                                                  *)
(***************************************************************************)
Pending == [pending |-> TRUE]

Imported ==
    /\ library = init_color_space_library(<<>>)
    /\ loaded = TRUE
    /\ inits = 0
    /\ result = Pending
    /\ running = 0
    /\ held = None
    /\ seen = None

Returned == result # Pending

(***************************************************************************)
(* kelvin_to_yxy called with a temperature of h / 2 kelvin.                 *)
(***************************************************************************)
\* twice the temperatures: below, at and above the clamp's limits 1000 and 15000 and
\* the branch points 2222 and 4000
HalfKelvins ==
    {-1000, 0, 1, 1998, 1999, 2000, 2001, 2002, 3000, 4443, 4444, 4445, 5000, 7999,
     8000, 8001, 10000, 13000, 20000, 29999, 30000, 30001, 40000, 2000000}

\* the default 1.0 and two others
Luminosities == {FOne, Lit(1, 2), FromInt(2)}

KelvinCalls ==
    {[op |-> "kelvin_to_yxy", half |-> h, temperature |-> Lit(h, 2), luminosity |-> l] :
        h \in HalfKelvins, l \in Luminosities}

InitKelvin == Imported /\ call \in KelvinCalls

KelvinToYxy ==
    /\ result = Pending
    /\ result' = kelvin_to_yxy(call.temperature, call.luminosity)
    /\ UNCHANGED <<library, loaded, inits, call, rest>>

NextKelvin == KelvinToYxy

SpecKelvin == InitKelvin /\ [][NextKelvin]_vars

\* C11: kelvin_to_yxy raises for no temperature; it returns the Yxy of the temperature
\* clamped to [1000, 15000], whose Y is the luminosity argument.
ClampHalf(h) == Max(2000, Min(30000, h))

C11_KelvinClamps ==
    (call.op = "kelvin_to_yxy" /\ Returned) =>
        /\ ~IsRaised(result)
        /\ result = KelvinClamped(Lit(ClampHalf(call.half), 2), call.luminosity)
        /\ result.Y = call.luminosity
        /\ (call.half <= 2000 => result = KelvinClamped(FromInt(1000), call.luminosity))
        /\ (call.half >= 30000 => result = KelvinClamped(FromInt(15000), call.luminosity))

C11_Witness ==
    /\ call.op = "kelvin_to_yxy" /\ Returned
    /\ call.half < 0
    /\ result = KelvinClamped(FromInt(1000), FOne)

(***************************************************************************)
(* match_linear_color_space called with the chromaticities of a table      *)
(* entry, the red x moved up and the white y moved down by an offset.      *)
(***************************************************************************)
\* offsets in units of 0.00001: none, below the default epsilon, above it
MatchOffsets == {0, 5, 20}

\* the default 1e-4, one that only equal chromaticities pass, one that all pass
MatchEpsilons == {DefaultEpsilon, Lit(1, 10^9), FOne}

MatchCall(descriptor, offset, epsilon) ==
    [op |-> "match_linear_color_space", like |-> descriptor.name, offset |-> offset,
     red_primary |-> Chromaticity(FAdd(descriptor.red_primary.x, Lit(offset, 100000)),
                                  descriptor.red_primary.y),
     green_primary |-> descriptor.green_primary,
     blue_primary |-> descriptor.blue_primary,
     white_point |-> Chromaticity(descriptor.white_point.x,
                                  FSub(descriptor.white_point.y, Lit(offset, 100000))),
     epsilon |-> epsilon]

MatchCallsOf(table) ==
    {MatchCall(table[i], offset, epsilon) :
        i \in 1..Len(table), offset \in MatchOffsets, epsilon \in MatchEpsilons}

InitMatch == Imported /\ call \in MatchCallsOf(COLOR_SPACES)

MatchLinearColorSpace ==
    /\ result = Pending
    /\ result' = match_linear_color_space(call.red_primary, call.green_primary,
                                          call.blue_primary, call.white_point, call.epsilon)
    /\ UNCHANGED <<library, loaded, inits, call, rest>>

NextMatch == MatchLinearColorSpace

SpecMatch == InitMatch /\ [][NextMatch]_vars

\* the table entries with gamma 1.0 whose four chromaticities are within the call's
\* epsilon of the call's, on both axes
MatchHits ==
    {j \in 1..Len(COLOR_SPACES) :
        /\ COLOR_SPACES[j].gamma = FOne
        /\ chromaticity_close(COLOR_SPACES[j].red_primary, call.red_primary, call.epsilon)
        /\ chromaticity_close(COLOR_SPACES[j].green_primary, call.green_primary, call.epsilon)
        /\ chromaticity_close(COLOR_SPACES[j].blue_primary, call.blue_primary, call.epsilon)
        /\ chromaticity_close(COLOR_SPACES[j].white_point, call.white_point, call.epsilon)}

\* the names of the table's gamma-1.0 entries with the primaries and white of lin_srgb
LinearRec709 ==
    {COLOR_SPACES[j].name : j \in {k \in 1..Len(COLOR_SPACES) :
        /\ COLOR_SPACES[k].gamma = FOne
        /\ \E l \in 1..Len(COLOR_SPACES) :
              /\ COLOR_SPACES[l].name = "lin_srgb"
              /\ COLOR_SPACES[k].red_primary = COLOR_SPACES[l].red_primary
              /\ COLOR_SPACES[k].green_primary = COLOR_SPACES[l].green_primary
              /\ COLOR_SPACES[k].blue_primary = COLOR_SPACES[l].blue_primary
              /\ COLOR_SPACES[k].white_point = COLOR_SPACES[l].white_point}}

ExactMatchCall(name) ==
    /\ call.op = "match_linear_color_space" /\ Returned
    /\ call.like = name /\ call.offset = 0 /\ call.epsilon = DefaultEpsilon

\* C12: with lin_srgb's own primaries and white point and the default epsilon,
\* match_linear_color_space returns the name of a catalogued gamma-1.0 space with
\* those primaries and that white, one of lin_rec709 and lin_srgb: not None, and no
\* non-linear Rec.709 space.
C12_MatchLinSrgb ==
    ExactMatchCall("lin_srgb") =>
        /\ LinearRec709 = {"lin_rec709", "lin_srgb"}
        /\ result # None
        /\ result \in {Str(name) : name \in LinearRec709}
        /\ result \notin {Str("sRGB"), Str("srgb_texture"), Str("g18_rec709"), Str("g22_rec709")}

C12_Witness == ExactMatchCall("lin_srgb") /\ result = Str("lin_rec709")

\* C18: match_linear_color_space returns the name of the first table entry, in declared
\* order, that has gamma 1.0 and all four chromaticities within epsilon on both axes,
\* and None when there is none; so acescg for AP1 with the ACES white, and identity for
\* the identity primaries.
C18_MatchFirstLinear ==
    (call.op = "match_linear_color_space" /\ Returned) =>
        /\ MatchHits = {} => result = None
        /\ MatchHits # {} =>
              result = Str(COLOR_SPACES[CHOOSE j \in MatchHits : \A k \in MatchHits : j <= k].name)
        /\ ExactMatchCall("lin_ap1") => result = Str("acescg")
        /\ ExactMatchCall("g22_ap1") => result = Str("acescg")
        /\ ExactMatchCall("raw") => result = Str("identity")

C18_Witness ==
    /\ ExactMatchCall("raw") /\ result = Str("identity")
    /\ \E j, k \in MatchHits : j # k

C18_WitnessNone ==
    /\ call.op = "match_linear_color_space" /\ Returned
    /\ result = None /\ call.like = "lin_srgb"


(***************************************************************************)
(* A caller that keeps references. get_named_color_space returns the       *)
(* registered object itself, get_rgb_to_xyz_matrix returns the ColorSpace's *)
(* own M33f, and from_matrix stores the descriptor's M33f in the ColorSpace *)
(* it builds, so a reference is modelled by where its object lives:        *)
(*   at      [key |-> k]: the ColorSpace registered under k; None: an      *)
(*           object only the caller reaches, kept in the field object      *)
(*   part    "self": the ColorSpace; "rgb_to_xyz": the M33f in its field   *)
(*           rgb_to_xyz; "matrix": an M33f that is no ColorSpace's field   *)
(*   made    i > 0: the ColorSpace was built from AdHocM33Descriptors[i],  *)
(*           whose rgb_to_xyz is the same M33f object                      *)
(***************************************************************************)
\* M33f.__setitem__ for an index in 0..8
M33fSetItem(self, index, value) == [self EXCEPT !.m[index + 1] = value]

Reference(at, part, object, made) == [at |-> at, part |-> part, object |-> object, made |-> made]

\* the ColorSpace (or the free-standing M33f) a reference leads to
Target(lib, ref) == IF ref.at = None THEN ref.object ELSE DictGet(lib, ref.at.key)

\* a clear that emptied the objects it removed from the registry
DetachedCleared(lib, ref) ==
    IF ref = None \/ ref.at = None THEN ref
    ELSE Reference(None, ref.part, [DictGet(lib, ref.at.key) EXCEPT !.rgb_to_xyz = M33fZero], 0)

\* the reference once the registry lib is cleared: the object lives on with the caller
Detached(lib, ref) ==
    IF ref = None \/ ref.at = None THEN ref
    ELSE Reference(None, ref.part, DictGet(lib, ref.at.key), 0)

\* the names this caller looks up, the indices it writes and the values it writes there
AliasNames == {"sRGB", "lin_ap0", "custom"}

AliasIndices == {0, 4}

AliasValues == {Zero}

MaxAliasInits == 1

InitAlias ==
    /\ library = init_color_space_library(<<>>)
    /\ loaded = TRUE
    /\ inits = 0
    /\ call = [op |-> "import"]
    /\ result = None
    /\ running = 0
    /\ held = None
    /\ seen = None

\* init_color_space_library(): the objects registered before are no longer in the dict
InitHolding ==
    /\ inits < MaxAliasInits
    /\ library' = init_color_space_library(library)
    /\ inits' = inits + 1
    /\ call' = [op |-> "init_color_space_library"]
    /\ result' = None
    /\ held' = Detached(library, held)
    /\ UNCHANGED <<loaded, running, seen>>

\* cs = get_named_color_space(name)
HoldNamed(name) ==
    /\ call' = [op |-> "get_named_color_space", name |-> name]
    /\ result' = get_named_color_space(library, name)
    /\ held' = IF HasKey(library, name) THEN Reference([key |-> name], "self", None, 0) ELSE None
    /\ UNCHANGED <<library, loaded, inits, running, seen>>

\* cs = create_color_space_m33(descriptor)
HoldCreatedM33(i) ==
    /\ call' = [op |-> "create_color_space_m33", descriptor |-> CreatedM33[i].descriptor]
    /\ result' = CreatedM33[i].returned
    /\ held' = Reference(None, "self", CreatedM33[i].returned, i)
    /\ UNCHANGED <<library, loaded, inits, running, seen>>

\* m = cs.get_rgb_to_xyz_matrix(), or m = descriptor.rgb_to_xyz for the descriptor cs
\* was built from
GetRgbToXyzMatrix ==
    /\ held # None
    /\ held.part = "self"
    /\ call' = [op |-> "get_rgb_to_xyz_matrix"]
    /\ result' = get_rgb_to_xyz_matrix(Target(library, held))
    /\ held' = [held EXCEPT !.part = "rgb_to_xyz"]
    /\ UNCHANGED <<library, loaded, inits, running, seen>>

\* m = cs.get_xyz_to_rgb_matrix(): invert returns a new M33f, or raises
GetXyzToRgbMatrix ==
    /\ held # None
    /\ held.part = "self"
    /\ call' = [op |-> "get_xyz_to_rgb_matrix"]
    /\ result' = get_xyz_to_rgb_matrix(Target(library, held))
    /\ held' = IF IsRaised(result') THEN held ELSE Reference(None, "matrix", result', 0)
    /\ UNCHANGED <<library, loaded, inits, running, seen>>

\* the ColorSpace cs with value stored at index of the M33f in its field rgb_to_xyz
Written(cs, index, value) == [cs EXCEPT !.rgb_to_xyz = M33fSetItem(@, index, value)]

\* m[index] = value
SetItem(index, value) ==
    /\ held # None
    /\ held.part # "self"
    /\ call' = [op |-> "__setitem__", index |-> index, value |-> value]
    /\ result' = None
    /\ library' = IF held.at = None THEN library
                  ELSE DictSet(library, held.at.key,
                               Written(DictGet(library, held.at.key), index, value))
    /\ held' = IF held.at # None THEN held
               ELSE IF held.part = "matrix"
                    THEN [held EXCEPT !.object = M33fSetItem(@, index, value)]
                    ELSE [held EXCEPT !.object = Written(@, index, value)]
    /\ UNCHANGED <<loaded, inits, running, seen>>

\* rgb_to_xyz(cs, rgb)
RgbToXyzHeld(rgb) ==
    /\ held # None
    /\ held.part = "self"
    /\ call' = [op |-> "rgb_to_xyz", rgb |-> rgb]
    /\ result' = rgb_to_xyz(Target(library, held), rgb)
    /\ UNCHANGED <<library, loaded, inits, running, held, seen>>

NextAlias ==
    \/ InitHolding
    \/ \E name \in AliasNames : HoldNamed(name)
    \/ \E i \in 1..Len(AdHocM33Descriptors) : HoldCreatedM33(i)
    \/ GetRgbToXyzMatrix
    \/ GetXyzToRgbMatrix
    \/ \E index \in AliasIndices, value \in AliasValues : SetItem(index, value)
    \/ \E rgb \in SampleColors : RgbToXyzHeld(rgb)

SpecAlias == InitAlias /\ [][NextAlias]_vars

\* C14: a ColorSpace is immutable after construction: whatever public operations follow
\* (lookups, conversions, init, the matrix accessors, writes through M33f.__setitem__ to a
\* matrix that get_rgb_to_xyz_matrix returned or to the matrix of the descriptor it was
\* built from), its matrix, k0 and phi stay what construction made them, so a registered
\* space converts as it did and a space built from a matrix keeps that matrix.
\* C3: every ColorSpace a constructor returns has an invertible matrix:
\* get_xyz_to_rgb_matrix on it never ends in the singular-matrix error, also for a
\* matrix-form descriptor whose matrix has |det| < 1e-10.
C3_ConstructedInvertible ==
    (/\ call.op = "get_xyz_to_rgb_matrix"
     /\ held # None
     /\ held.made > 0
     /\ Target(library, held) = CreatedM33[held.made].returned) => ~IsRaised(result)

C14_Immutable ==
    /\ library = Registry
    /\ (held # None /\ held.part = "self" /\ held.at # None /\ call.op = "rgb_to_xyz") =>
           result = rgb_to_xyz(DictGet(Registry, held.at.key), call.rgb)
    /\ (held # None /\ held.made > 0) => Target(library, held) = CreatedM33[held.made].returned

(***************************************************************************)
(* The conversion functions called in any order, between calls of the      *)
(* functions that write the registry or build spaces.  seen is one earlier *)
(* conversion call, with its arguments and what it returned.               *)
(***************************************************************************)
\* the arguments passed: names of registered spaces as <<dst, src>>, and values
PureNames == {"lin_rec2020"}

PureTransforms == {<<"lin_ap0", "sRGB">>}

PureListTransforms == {<<"lin_ap0", "lin_srgb">>}

PureColors == {RGB(Lit(1, 2), Lit(1, 4), Lit(3, 4))}

PureLists == {<<RGB(FOne, FOne, FOne), RGB(Lit(1, 2), Lit(1, 4), Lit(3, 4))>>}

PureXYZs == {XYZ(Lit(1, 4), Lit(1, 2), Lit(1, 8))}

PureYxys == {Yxy(FOne, Lit(3127, 10000), Lit(329, 1000))}

PureKelvins == {FromInt(6500)}

PureMatches == {MatchCall(COLOR_SPACES[8], 0, DefaultEpsilon)}

\* the descriptors passed to create_color_space between the conversions
PureCreated == {2}

ConversionOps ==
    {"transform_color", "transform_colors", "rgb_to_xyz", "xyz_to_rgb", "xyz_to_yxy",
     "yxy_to_xyz", "yxy_to_rgb", "kelvin_to_yxy", "match_linear_color_space"}

InitPure ==
    /\ library = init_color_space_library(<<>>)
    /\ loaded = TRUE
    /\ inits = 0
    /\ call = [op |-> "import"]
    /\ result = None
    /\ running = 0
    /\ held = None
    /\ seen = None

\* the caller keeps the last conversion call and its result
Remember ==
    /\ call.op \in ConversionOps
    /\ seen = None
    /\ seen' = [call |-> call, result |-> result]
    /\ UNCHANGED <<library, loaded, inits, call, result, running, held>>

TransformColor(dst, src, rgb) ==
    /\ call' = [op |-> "transform_color", dst |-> dst, src |-> src, rgb |-> rgb]
    /\ result' = transform_color(dst, src, rgb)
    /\ UNCHANGED <<library, loaded, inits, rest>>

TransformColors(dst, src, rgb_list) ==
    /\ call' = [op |-> "transform_colors", dst |-> dst, src |-> src, rgb_list |-> rgb_list]
    /\ result' = transform_colors(dst, src, rgb_list)
    /\ UNCHANGED <<library, loaded, inits, rest>>

RgbToXyzOf(cs, rgb) ==
    /\ call' = [op |-> "rgb_to_xyz", cs |-> cs, rgb |-> rgb]
    /\ result' = rgb_to_xyz(cs, rgb)
    /\ UNCHANGED <<library, loaded, inits, rest>>

XyzToRgb(cs, xyz) ==
    /\ call' = [op |-> "xyz_to_rgb", cs |-> cs, xyz |-> xyz]
    /\ result' = xyz_to_rgb(cs, xyz)
    /\ UNCHANGED <<library, loaded, inits, rest>>

XyzToYxy(xyz) ==
    /\ call' = [op |-> "xyz_to_yxy", xyz |-> xyz]
    /\ result' = xyz_to_yxy(xyz)
    /\ UNCHANGED <<library, loaded, inits, rest>>

YxyToXyz(yxy) ==
    /\ call' = [op |-> "yxy_to_xyz", yxy |-> yxy]
    /\ result' = yxy_to_xyz(yxy)
    /\ UNCHANGED <<library, loaded, inits, rest>>

YxyToRgb(cs, yxy) ==
    /\ call' = [op |-> "yxy_to_rgb", cs |-> cs, yxy |-> yxy]
    /\ result' = yxy_to_rgb(cs, yxy)
    /\ UNCHANGED <<library, loaded, inits, rest>>

KelvinToYxyOf(temperature) ==
    /\ call' = [op |-> "kelvin_to_yxy", temperature |-> temperature]
    /\ result' = kelvin_to_yxy(temperature, FOne)
    /\ UNCHANGED <<library, loaded, inits, rest>>

MatchLinearColorSpaceOf(asked) ==
    /\ call' = asked
    /\ result' = match_linear_color_space(asked.red_primary, asked.green_primary,
                                          asked.blue_primary, asked.white_point, asked.epsilon)
    /\ UNCHANGED <<library, loaded, inits, rest>>

\* the ColorSpace arguments are the registered objects
Named(name) == get_named_color_space(library, name)

NextPure ==
    \/ InitColorSpaceLibrary
    \/ \E i \in PureCreated : CreateColorSpace(i)
    \/ Remember
    \/ \E pair \in PureTransforms, rgb \in PureColors :
          TransformColor(Named(pair[1]), Named(pair[2]), rgb)
    \/ \E pair \in PureListTransforms, rgb_list \in PureLists :
          TransformColors(Named(pair[1]), Named(pair[2]), rgb_list)
    \/ \E cs \in PureNames, rgb \in PureColors : RgbToXyzOf(Named(cs), rgb)
    \/ \E cs \in PureNames, xyz \in PureXYZs : XyzToRgb(Named(cs), xyz)
    \/ \E xyz \in PureXYZs : XyzToYxy(xyz)
    \/ \E yxy \in PureYxys : YxyToXyz(yxy)
    \/ \E cs \in PureNames, yxy \in PureYxys : YxyToRgb(Named(cs), yxy)
    \/ \E temperature \in PureKelvins : KelvinToYxyOf(temperature)
    \/ \E asked \in PureMatches : MatchLinearColorSpaceOf(asked)

SpecPure == InitPure /\ [][NextPure]_vars

InitRace ==
    /\ library = init_color_space_library(<<>>)
    /\ loaded = TRUE
    /\ inits = 0
    /\ call = [op |-> "import"]
    /\ result = None
    /\ running = 0
    /\ held = None
    /\ seen = None

\* the loop ending before its last entry
NextEntryShort(spaces, i) == IF i >= Len(spaces) - 1 THEN 0 ELSE i + 1

\* the entry the loop inserts after entry i, 0 once the loop has ended
NextEntry(spaces, i) == IF i = Len(spaces) THEN 0 ELSE i + 1

\* _color_space_library.clear()
InitClear ==
    /\ running = 0
    /\ inits < MaxInits
    /\ library' = DictClear(library)
    /\ running' = NextEntry(Constructed, 0)
    /\ inits' = inits + 1
    /\ UNCHANGED <<loaded, call, result, held, seen>>

\* _color_space_library[name] = ColorSpace(desc)
InitInsert ==
    /\ running > 0
    /\ library' = DictSet(library, Constructed[running].descriptor.name, Constructed[running])
    /\ running' = NextEntry(Constructed, running)
    /\ UNCHANGED <<loaded, inits, call, result, held, seen>>

\* get_named_color_space(name) in the other thread; during says whether
\* init_color_space_library was running
Lookup(name) ==
    /\ call' = [op |-> "get_named_color_space", name |-> name, during |-> running > 0]
    /\ result' = get_named_color_space(library, name)
    /\ UNCHANGED <<library, loaded, inits, running, held, seen>>

NextRace ==
    \/ InitClear
    \/ InitInsert
    \/ \E name \in LookupNames : Lookup(name)

SpecRace == InitRace /\ [][NextRace]_vars

\* C16: init_color_space_library is not atomic for lookups: it clears the registry and
\* inserts the 18 entries one by one, so a lookup of a built-in name made while it runs
\* may find the name absent; a lookup of a built-in name made once it has completed, with
\* no init running, returns a ColorSpace.
C16_LookupAfterInit ==
    /\ running \in 0..Len(COLOR_SPACES)
    /\ Len(library) = (IF running = 0 THEN Len(COLOR_SPACES) ELSE running - 1)
    /\ (call.op = "get_named_color_space" /\ call.name \in BuiltinNames /\ ~call.during) =>
           /\ IsColorSpace(result)
           /\ result.descriptor.name = call.name

\* C2: get_named_color_space for a name that is no key of the registry returns None and
\* raises nothing, whatever the registry holds (also while it is being refilled), and adds
\* no entry: the registry is as it was.
C2_MissingNameIsNone ==
    [][\A name \in LookupNames :
          Lookup(name) => /\ library' = library
                          /\ ~HasKey(library, name) => (result' = None /\ ~HasKey(library', name))
                          /\ ~IsRaised(result')]_vars

C2_Witness ==
    /\ call.op = "get_named_color_space"
    /\ call.name = "custom"
    /\ running > 1
    /\ Len(library) \in 1..17
    /\ result = None

C16_Witness ==
    /\ call.op = "get_named_color_space"
    /\ call.name \in BuiltinNames
    /\ call.during
    /\ result = None

(***************************************************************************)
(* ColorSpace.__eq__ called once: self == other.                            *)
(***************************************************************************)
Returns(created) == [i \in 1..Len(created) |-> created[i].returned]

\* the ColorSpaces compared: the 18 built from COLOR_SPACES first, then the ones the
\* create functions returned
EqSpaces == Constructed \o SelectSeq(Returns(Created) \o Returns(CreatedM33), IsColorSpace)

\* values that are no ColorSpace
EqOthers == <<None, Str("sRGB"), COLOR_SPACES[15], M33fZero>>

\* self is spaces[i]; other is spaces[j], or one of others for j above Len(spaces)
EqCallsOf(spaces, others) ==
    {[op |-> "__eq__", i |-> i, j |-> j, spaces |-> Len(spaces),
      self |-> spaces[i],
      other |-> IF j <= Len(spaces) THEN spaces[j] ELSE others[j - Len(spaces)]] :
        i \in 1..Len(spaces), j \in 1..(Len(spaces) + Len(others))}

InitEq == Imported /\ call \in EqCallsOf(EqSpaces, EqOthers)

Eq ==
    /\ result = Pending
    /\ result' = Bool(ColorSpaceEq(call.self, call.other))
    /\ UNCHANGED <<library, loaded, inits, call, rest>>

NextEq == Eq

SpecEq == InitEq /\ [][NextEq]_vars

SameKey(a, b) ==
    /\ a.descriptor.name = b.descriptor.name
    /\ FCmp(a.descriptor.gamma, b.descriptor.gamma) = 0
    /\ FCmp(a.descriptor.linear_bias, b.descriptor.linear_bias) = 0

\* C17: two ColorSpaces are equal exactly when their descriptors' name, gamma and
\* linear_bias are, whatever their primaries, white point and matrix; a ColorSpace equals
\* no value that is not a ColorSpace; so no two of the 18 registered spaces are equal.
C17_EqualityByKey ==
    (call.op = "__eq__" /\ Returned) =>
        /\ call.j <= call.spaces => result = Bool(SameKey(call.self, call.other))
        /\ call.j > call.spaces => result = Bool(FALSE)
        /\ (call.i <= Len(COLOR_SPACES) /\ call.j <= Len(COLOR_SPACES) /\ call.i # call.j) =>
               result = Bool(FALSE)

C17_Witness ==
    /\ call.op = "__eq__"
    /\ call.self.descriptor.name = "sRGB"
    /\ call.i # call.j
    /\ call.j <= call.spaces
    /\ call.self.rgb_to_xyz # call.other.rgb_to_xyz
    /\ result = Bool(TRUE)

(***************************************************************************)
(* ColorSpace(descriptor) called once.                                     *)
(***************************************************************************)
\* the white points given to each entry of COLOR_SPACES: its own, the ACES one, its own
\* with x = 0, and the all-zero one
Whites(descriptor) ==
    <<descriptor.white_point, WP_ACES, Chromaticity(Zero, descriptor.white_point.y),
      Chromaticity(Zero, Zero)>>

WithWhitePoint(descriptor, white) == [descriptor EXCEPT !.white_point = white]

\* entry says whether the descriptor is an entry of the table as it stands
ConstructCallsOf(table, others) ==
    {[op |-> "ColorSpace", entry |-> (k = 1),
      descriptor |-> WithWhitePoint(table[i], Whites(table[i])[k])] :
        i \in 1..Len(table), k \in 1..4}
    \cup {[op |-> "ColorSpace", entry |-> FALSE, descriptor |-> others[i]] : i \in 1..Len(others)}

InitConstruct == Imported /\ call \in ConstructCallsOf(COLOR_SPACES, AdHocDescriptors)

Construct ==
    /\ result = Pending
    /\ result' = ColorSpace(call.descriptor)
    /\ UNCHANGED <<library, loaded, inits, call, rest>>

NextConstruct == Construct

SpecConstruct == InitConstruct /\ [][NextConstruct]_vars

Tolerance == FDiv(Lit(1, 10^6), FromInt(10^6))

Near(a, b) == FLe(FAbs(FSub(a, b)), Tolerance)

\* a constructed ColorSpace whose descriptor gives primaries and a white point
Derivable ==
    /\ call.op = "ColorSpace"
    /\ Returned
    /\ IsColorSpace(result)
    /\ ~(IsZero(call.descriptor.white_point.x) /\ IsZero(call.descriptor.white_point.y))

\* C19: the derivation of the matrix from the primaries is skipped only for an all-zero
\* white point: a descriptor whose white point is not all-zero, also one with white
\* x = 0 and y # 0, gets the derived matrix and does not keep the all-zero matrix.
C19_DerivedUnlessAllZero ==
    Derivable => /\ result.rgb_to_xyz = PrimariesMatrix(call.descriptor)
                 /\ result.rgb_to_xyz # M33fZero

\* C20: for each of the 18 entries of COLOR_SPACES the derived matrix maps RGB (1, 1, 1)
\* to the white point's XYZ at luminance 1, (wx/wy, 1, (1 - wx - wy)/wy), and each of its
\* columns is the primary's (x, y, 1 - x - y) times one coefficient (to 1e-12).
WhiteXYZ(white) ==
    <<FDiv(white.x, white.y), FOne, FDiv(FSub(FSub(FOne, white.x), white.y), white.y)>>

Along(column, primary) ==
    \A a \in 1..3, b \in 1..3 : Near(FMul(column[a], primary[b]), FMul(column[b], primary[a]))

ColumnOf(matrix, j) == <<matrix.m[j], matrix.m[3 + j], matrix.m[6 + j]>>

C20_WhiteMapsToWhite ==
    (call.op = "ColorSpace" /\ call.entry /\ Returned) =>
        /\ IsColorSpace(result)
        /\ \A k \in 1..3 :
              Near(Apply(result.rgb_to_xyz, FOne, FOne, FOne)[k], WhiteXYZ(call.descriptor.white_point)[k])
        /\ Along(ColumnOf(result.rgb_to_xyz, 1), Column(call.descriptor.red_primary))
        /\ Along(ColumnOf(result.rgb_to_xyz, 2), Column(call.descriptor.green_primary))
        /\ Along(ColumnOf(result.rgb_to_xyz, 3), Column(call.descriptor.blue_primary))

C20_Witness ==
    /\ call.op = "ColorSpace"
    /\ call.entry
    /\ call.descriptor.name = "lin_ap0"
    /\ IsColorSpace(result)
    /\ result.rgb_to_xyz # M33fZero
    /\ Near(Apply(result.rgb_to_xyz, FOne, FOne, FOne)[2], FOne)

(***************************************************************************)
(* A caller converting one colour from A to B, the outcome from B to C,    *)
(* and the colour from A to C directly.  seen keeps the outcomes of the    *)
(* earlier calls.                                                          *)
(***************************************************************************)
\* the spaces chained in every order, by their place in COLOR_SPACES: adobergb,
\* lin_ap0, lin_rec2020 and sRGB
ChainSpaces == {2, 8, 12, 15}

\* colours in [0, 1]: one below sRGB's breakpoint in a component, and saturated ones
\* that lie outside the smaller gamuts
ChainColors ==
    {RGB(Lit(1, 2), Lit(1, 50), Lit(3, 4)), RGB(Zero, FOne, Zero), RGB(FOne, Lit(1, 4), Zero)}

\* colours far above 1, each with the spaces it is chained through: sRGB,
\* lin_rec2020 and g22_rec709; sRGB, srgb_displayp3 and g22_rec709
ChainWide ==
    {<<15, 12, 6, RGB(Zero, FromInt(500), FromInt(500))>>,
     <<15, 14, 6, RGB(Zero, FromInt(500), FromInt(100))>>}

ChainCall(spaces, a, b, c, rgb) ==
    [op |-> "transform_color", a |-> a, b |-> b, c |-> c, rgb |-> rgb,
     A |-> spaces[a], B |-> spaces[b], C |-> spaces[c]]

\* a, b, c are places in spaces; every space is also chained with itself
ChainCallsOf(spaces, mixed, colors, wide) ==
    {ChainCall(spaces, t[1][1], t[1][2], t[1][3], t[2]) :
        t \in ((mixed \X mixed \X mixed) \cup {<<i, i, i>> : i \in 1..Len(spaces)}) \X colors}
    \cup {ChainCall(spaces, t[1], t[2], t[3], t[4]) : t \in wide}

InitChain == Imported /\ call \in ChainCallsOf(Constructed, ChainSpaces, ChainColors, ChainWide)

\* transform_color(B, A, rgb)
TransformToB ==
    /\ result = Pending
    /\ result' = transform_color(call.B, call.A, call.rgb)
    /\ UNCHANGED <<library, loaded, inits, call, rest>>

\* transform_color(C, B, mid), mid being what the first call returned
TransformOn ==
    /\ Returned
    /\ seen = None
    /\ result' = transform_color(call.C, call.B, result)
    /\ seen' = [mid |-> result]
    /\ UNCHANGED <<library, loaded, inits, call, running, held>>

\* transform_color(C, A, rgb)
TransformDirect ==
    /\ seen # None
    /\ "via" \notin DOMAIN seen
    /\ result' = transform_color(call.C, call.A, call.rgb)
    /\ seen' = [mid |-> seen.mid, via |-> result]
    /\ UNCHANGED <<library, loaded, inits, call, running, held>>

NextChain == TransformToB \/ TransformOn \/ TransformDirect

SpecChain == InitChain /\ [][NextChain]_vars

ChainDone == seen # None /\ "via" \in DOMAIN seen

NearBy(a, b, tolerance) == FLe(FAbs(FSub(a, b)), tolerance)

NearRGB(p, q, tolerance) ==
    /\ NearBy(p.r, q.r, tolerance)
    /\ NearBy(p.g, q.g, tolerance)
    /\ NearBy(p.b, q.b, tolerance)

InGamut(rgb) == \A t \in {rgb.r, rgb.g, rgb.b} : FLe(Zero, t) /\ FLe(t, FOne)

\* C4: identity round trip: for each of the 18 registered spaces S and an RGB r with
\* components in [0, 1], transform_color(S, S, r) is r in each component within 1e-6.
C4_IdentityRoundTrip ==
    (call.op = "transform_color" /\ Returned /\ seen = None /\ call.a = call.b) =>
        NearRGB(result, call.rgb, Lit(1, 10^6))

C4_Witness ==
    /\ call.op = "transform_color"
    /\ Returned
    /\ seen = None
    /\ call.a = call.b
    /\ call.A.descriptor.name = "sRGB"
    /\ call.rgb.g = Lit(1, 50)
    /\ NearRGB(result, call.rgb, Lit(1, 10^6))

\* C5 as stated: transitivity for any RGB r: converting r from A to B and the outcome
\* from B to C gives what converting r from A to C gives, within 1e-5.
C5_TransitiveAnyRGB ==
    (call.op = "transform_color" /\ ChainDone) => NearRGB(seen.via, result, Lit(1, 10^5))

\* C5: transitivity: for registered spaces A, B, C and an RGB r with components in
\* [0, 1], converting r from A to B and the outcome from B to C gives what converting r
\* from A to C gives, within 1e-5, also when the outcome in B has components below 0 or
\* above 1.
C5_Transitive ==
    (call.op = "transform_color" /\ ChainDone /\ InGamut(call.rgb)) =>
        NearRGB(seen.via, result, Lit(1, 10^5))

C5_Witness ==
    /\ call.op = "transform_color"
    /\ ChainDone
    /\ call.a # call.b
    /\ call.b # call.c
    /\ InGamut(call.rgb)
    /\ ~InGamut(seen.mid)
    /\ FLt(seen.mid.r, Zero)
    /\ NearRGB(seen.via, result, Lit(1, 10^5))

(***************************************************************************)
(* A caller converting one XYZ to Yxy and the outcome back to XYZ.         *)
(***************************************************************************)
\* the components of the XYZ values converted, in quarters
YxyQuarters == {-4, -2, -1, 0, 1, 2, 3}

YxyCalls ==
    {[op |-> "xyz_to_yxy", xyz |-> XYZ(Lit(a, 4), Lit(b, 4), Lit(c, 4)),
      quarters |-> <<a, b, c>>] : a \in YxyQuarters, b \in YxyQuarters, c \in YxyQuarters}

InitYxy == Imported /\ call \in YxyCalls

\* yxy = xyz_to_yxy(xyz)
ToYxy ==
    /\ result = Pending
    /\ result' = xyz_to_yxy(call.xyz)
    /\ UNCHANGED <<library, loaded, inits, call, rest>>

\* yxy_to_xyz(yxy)
BackToXyz ==
    /\ Returned
    /\ seen = None
    /\ ~IsRaised(result)
    /\ result' = yxy_to_xyz(result)
    /\ seen' = [yxy |-> result]
    /\ UNCHANGED <<library, loaded, inits, call, running, held>>

NextYxy == ToYxy \/ BackToXyz

SpecYxy == InitYxy /\ [][NextYxy]_vars

\* the sum of the three components, four times over
QuarterSum(q) == q[1] + q[2] + q[3]

\* each component of p within 1e-9 times (|x| + |y| + |z|) of q's
NearXYZ(p, q) ==
    LET tolerance == FMul(Lit(1, 10^9), FAdd(FAdd(FAbs(q.x), FAbs(q.y)), FAbs(q.z)))
    IN  /\ NearBy(p.x, q.x, tolerance)
        /\ NearBy(p.y, q.y, tolerance)
        /\ NearBy(p.z, q.z, tolerance)

C10_XyzToYxyTotal ==
    (call.op = "xyz_to_yxy" /\ Returned /\ seen = None) =>
        /\ ~IsRaised(result)
        /\ result.Y = call.xyz.y
        /\ IF QuarterSum(call.quarters) = 0
           THEN result.x = Zero /\ result.y = Zero
           ELSE /\ result.x = FDiv(call.xyz.x, Lit(QuarterSum(call.quarters), 4))
                /\ result.y = FDiv(call.xyz.y, Lit(QuarterSum(call.quarters), 4))
        /\ call.quarters = <<0, 0, 0>> => result = Yxy(Zero, Zero, Zero)

C10_Witness ==
    /\ call.op = "xyz_to_yxy"
    /\ seen = None
    /\ call.quarters = <<2, -1, -1>>
    /\ result = Yxy(Lit(-1, 4), Zero, Zero)

(***************************************************************************)
(* A caller applying the transfer functions of one ColorSpace to a number. *)
(***************************************************************************)
\* the numbers in [0, 1] passed, as fractions
UnitValues == {<<0, 1>>, <<1, 1000>>, <<1, 50>>, <<1, 25>>, <<1, 4>>, <<1, 2>>, <<1, 1>>}

\* the numbers outside [0, 1] passed to spaces with gamma 1
WideValues == {<<-1, 1>>, <<2, 1>>, <<10^9, 1>>, <<2 * 10^9, 1>>}

TransferCall(op, spaces, i, registered, v) ==
    [op |-> op, self |-> spaces[i], registered |-> i <= registered, t |-> Lit(v[1], v[2]),
     value |-> v]

\* negative numbers passed to every space
NegativeValues == {<<-1, 4>>, <<-3, 1>>}

\* 2^-57, the distance from sRGB's k0 to the next float
Ulp57 == FMul(Lit(1, 2^30), Lit(1, 2^27))

\* the numbers passed at a space's breakpoint: k0 + offset * 2^-57
BreakpointOffsets == {-2, -1, 0, 1, 2}

\* to_linear(k0 + offset * 2^-57); the value <<offset, 0>> marks the number as one
\* counted from k0
BreakpointCall(spaces, i, registered, offset) ==
    [op |-> "to_linear", self |-> spaces[i], registered |-> i <= registered,
     t |-> FAdd(spaces[i].k0, FMul(FromInt(offset), Ulp57)), value |-> <<offset, 0>>]

\* every space with every number of [0, 1], with the negative numbers and with the
\* numbers at its breakpoint, and those with gamma 1 with the others too
TransferCallsOf(spaces, registered) ==
    {TransferCall(c[1], spaces, c[2], registered, c[3]) :
        c \in {d \in {"to_linear", "from_linear"} \X (1..Len(spaces))
                        \X (UnitValues \cup WideValues \cup NegativeValues) :
                 \/ d[1] = "to_linear" /\ d[3] \in UnitValues \cup NegativeValues
                 \/ spaces[d[2]].descriptor.gamma = FOne /\ d[3] \notin NegativeValues}}
    \cup {BreakpointCall(spaces, c[1], registered, c[2]) :
             c \in (1..Len(spaces)) \X BreakpointOffsets}

\* the registered spaces and the ad hoc one with gamma 1 and a bias
InitTransfer ==
    /\ Imported
    /\ call \in TransferCallsOf(Constructed \o <<Created[3].returned>>, Len(COLOR_SPACES))

\* S.to_linear(t)
ToLinear ==
    /\ result = Pending
    /\ call.op = "to_linear"
    /\ result' = to_linear(call.self, call.t)
    /\ UNCHANGED <<library, loaded, inits, call, rest>>

\* S.from_linear(t)
FromLinear ==
    /\ result = Pending
    /\ call.op = "from_linear"
    /\ result' = from_linear(call.self, call.t)
    /\ UNCHANGED <<library, loaded, inits, call, rest>>

\* S.from_linear(S.to_linear(t))
FromLinearOfToLinear ==
    /\ Returned
    /\ call.op = "to_linear"
    /\ seen = None
    /\ result' = from_linear(call.self, result)
    /\ seen' = [mid |-> result]
    /\ UNCHANGED <<library, loaded, inits, call, running, held>>

NextTransfer == ToLinear \/ FromLinear \/ FromLinearOfToLinear

SpecTransfer == InitTransfer /\ [][NextTransfer]_vars

\* C7: for every ColorSpace whose descriptor has gamma = 1, whatever its linear_bias,
\* registered or ad hoc, to_linear(t) = t and from_linear(t) = t for every t, also for
\* t >= 1e9.
C7_LinearIsIdentity ==
    (call.op \in {"to_linear", "from_linear"} /\ Returned /\ seen = None
        /\ call.self.descriptor.gamma = FOne) =>
        result = call.t

\* C8: for every registered space S and every t in [0, 1], S.from_linear(S.to_linear(t))
\* is t within 1e-6.
C8_EncodeDecodeRoundTrip ==
    (call.op = "to_linear" /\ seen # None /\ call.registered /\ call.value \in UnitValues) =>
        NearBy(result, call.t, Lit(1, 10^6))

C8_Witness ==
    /\ call.op = "to_linear"
    /\ seen # None
    /\ call.registered
    /\ call.self.descriptor.name = "sRGB"
    /\ call.value = <<1, 2>>
    /\ seen.mid # call.t
    /\ NearBy(result, call.t, Lit(1, 10^6))

(***************************************************************************)
(* A caller inverting one matrix and multiplying it by the outcome.        *)
(***************************************************************************)
\* the diagonal entries passed, in ten-thousandths
DiagonalEntries == {0, 1, 10, 100, 10000, 20000}

\* [[1000, 3000, 0], [2000, 6000 + 1e-9, 0], [0, 0, 1]]: determinant 1e-6, rows
\* nearly proportional
NearlyProportional ==
    M33f(<<FromInt(1000), FromInt(3000), Zero,
           FromInt(2000), FAdd(FromInt(6000), Lit(1, 10^9)), Zero,
           Zero, Zero, FOne>>)

InvertCall(kind, self, entries) ==
    [op |-> "invert", kind |-> kind, self |-> self, entries |-> entries]

InvertCallsOf(spaces) ==
    {InvertCall("registered", spaces[i].rgb_to_xyz, <<i>>) : i \in 1..Len(spaces)}
        \cup {InvertCall("diagonal", Diagonal(Lit(a, 10000), Lit(b, 10000), Lit(c, 10000)),
                         <<a, b, c>>) :
                 a \in DiagonalEntries, b \in DiagonalEntries, c \in DiagonalEntries}
        \cup {InvertCall("nearly proportional", NearlyProportional, <<>>)}

InitInvert ==
    /\ library = init_color_space_library(<<>>)
    /\ loaded = TRUE
    /\ inits = 0
    /\ result = Pending
    /\ running = 0
    /\ seen = None
    /\ call \in InvertCallsOf(Constructed)
    /\ held = call.self

\* M.invert(): inv is a new M33f, self.m is only read
Invert ==
    /\ result = Pending
    /\ result' = invert(held)
    /\ UNCHANGED <<library, loaded, inits, call, rest>>

\* M.multiply(M.invert()): result is a new M33f, self.m and other.m are only read
Multiply ==
    /\ Returned
    /\ seen = None
    /\ ~IsRaised(result)
    /\ result' = multiply(held, result)
    /\ seen' = [inverse |-> result]
    /\ UNCHANGED <<library, loaded, inits, call, running, held>>

NextInvert == Invert \/ Multiply

SpecInvert == InitInvert /\ [][NextInvert]_vars

\* every element of p within 1e-6 of the identity matrix's
NearIdentity(p) ==
    \A i \in 1..9 : NearBy(p.m[i], IF i \in {1, 5, 9} THEN FOne ELSE Zero, Lit(1, 10^6))

\* a * b * c < 100 for naturals, without forming a product of more than 31 bits
ProductBelow100(e) ==
    \/ e[1] = 0 \/ e[2] = 0 \/ e[3] = 0
    \/ e[1] < 100 /\ e[2] < 100 /\ e[3] < 100 /\ e[1] * e[2] * e[3] < 100

\* invert raised ValueError exactly when the determinant it computed is below 1e-10
RaisedWhenSmall ==
    (call.op = "invert" /\ Returned /\ seen = None) =>
        /\ IsRaised(result) <=> FLt(FAbs(Det(call.self)), F1em10)
        /\ IsRaised(result) => result = Raise("ValueError")
        /\ call.kind = "registered" => ~IsRaised(result)
        /\ call.kind = "diagonal" =>
               (IsRaised(result) <=> ProductBelow100(call.entries))

\* C9 as stated: invert raises ValueError exactly when |det| < 1e-10 and otherwise
\* returns a new matrix that is the inverse, M.multiply(M.invert()) being the identity
\* for any such M; the operand is left as it was.
C9_InvertAnyMatrix ==
    /\ RaisedWhenSmall
    /\ (call.op = "invert" /\ seen # None) => NearIdentity(result)
    /\ held = call.self

\* C9: invert raises ValueError exactly when the determinant it computes has
\* |det| < 1e-10 and otherwise returns a new matrix; M.multiply(M.invert()) is the
\* identity within 1e-6 for every registered space's derived matrix and for diagonal
\* matrices; in both outcomes the operand is left as it was.
C9_Invert ==
    /\ RaisedWhenSmall
    /\ (call.op = "invert" /\ seen # None /\ call.kind \in {"registered", "diagonal"}) =>
           NearIdentity(result)
    /\ held = call.self

C9_Witness ==
    /\ call.op = "invert"
    /\ call.kind = "registered"
    /\ seen # None
    /\ seen.inverse # call.self
    /\ NearIdentity(result)
    /\ held = call.self

C9_WitnessRaised ==
    /\ call.op = "invert"
    /\ call.kind = "diagonal"
    /\ call.entries = <<1, 1, 1>>
    /\ result = Raise("ValueError")
    /\ held = call.self

(***************************************************************************)
(* A caller converting one colour between two spaces with transform_color, *)
(* and the same colour by way of XYZ.                                      *)
(***************************************************************************)
\* sRGB, g22_rec709, lin_ap0 and lin_rec2020, then the ad hoc spaces made from the unit
\* matrix, from the all-zero matrix and from the diagonal matrix of determinant 1e-12
TransformSpaces(table, created) ==
    <<table[15], table[6], table[8], table[12],
      created[1].returned, created[2].returned, created[3].returned>>

\* the places in TransformSpaces of the spaces whose matrix invert refuses
Singular == {6, 7}

\* colours in [0, 1], one with components far above 1 and one with a negative component
ColorsTransformed ==
    {RGB(Lit(1, 2), Lit(1, 50), Lit(3, 4)), RGB(Zero, FOne, Zero), RGB(FOne, Lit(1, 4), Zero),
     RGB(Zero, FromInt(500), FromInt(500)), RGB(Lit(-1, 4), Lit(1, 2), FOne)}

TransformCallsOf(spaces, colors) ==
    {[op |-> "transform_color", d |-> t[1], s |-> t[2], rgb |-> t[3],
      dst |-> spaces[t[1]], src |-> spaces[t[2]]] :
        t \in (1..Len(spaces)) \X (1..Len(spaces)) \X colors}

InitTransform ==
    /\ Imported
    /\ call \in TransformCallsOf(TransformSpaces(Constructed, CreatedM33), ColorsTransformed)

\* transform_color(dst, src, rgb)
Transform ==
    /\ result = Pending
    /\ result' = transform_color(call.dst, call.src, call.rgb)
    /\ UNCHANGED <<library, loaded, inits, call, rest>>

\* xyz_to_rgb(dst, rgb_to_xyz(src, rgb))
ByWayOfXYZ ==
    /\ Returned
    /\ seen = None
    /\ result' = xyz_to_rgb(call.dst, rgb_to_xyz(call.src, call.rgb))
    /\ seen' = [direct |-> result]
    /\ UNCHANGED <<library, loaded, inits, call, running, held>>

\* src.get_rgb_to_rgb_matrix(dst)
GetRgbToRgbMatrix ==
    /\ held = None
    /\ held' = get_rgb_to_rgb_matrix(call.src, call.dst)
    /\ UNCHANGED <<library, loaded, inits, call, result, running, seen>>

NextTransform == Transform \/ ByWayOfXYZ \/ GetRgbToRgbMatrix

SpecTransform == InitTransform /\ [][NextTransform]_vars

\* the three steps in their order: to_linear of the source on each channel, the matrix
\* dst.xyz_to_rgb * src.rgb_to_xyz, from_linear of the destination on each channel
ThreeSteps(dst, src, rgb) ==
    FromLinearRGB(dst, transform_rgb(multiply(invert(dst.rgb_to_xyz), src.rgb_to_xyz),
                                     ToLinearRGB(src, rgb)))

\* what C21 says of the steps, of the matrix and of the failure
StepsMatrixAndFailure ==
    /\ (call.op = "transform_color" /\ Returned /\ seen = None) =>
           /\ IsRaised(result) <=> call.d \in Singular
           /\ IsRaised(result) => result = Raise("ValueError")
           /\ ~IsRaised(result) => result = ThreeSteps(call.dst, call.src, call.rgb)
    /\ (call.op = "transform_color" /\ held # None) =>
           /\ IsRaised(held) <=> call.d \in Singular
           /\ ~IsRaised(held) => held = multiply(invert(call.dst.rgb_to_xyz), call.src.rgb_to_xyz)

C21_WitnessSingularSource ==
    /\ call.op = "transform_color"
    /\ call.d = 1 /\ call.s = 6
    /\ Returned /\ ~IsRaised(result)

(***************************************************************************)
(* init_color_space_library called once by each of several threads, their  *)
(* dict operations interleaved in any order.  What is kept of the dict is   *)
(* its keys and their values: the entries are held in the table's order,   *)
(* whatever the order they were inserted in, which clear and item           *)
(* assignment do not depend on.                                            *)
(***************************************************************************)
MaxThreads == 2

Threads == 1..MaxThreads

\* the entries of d in the order of the table
InTableOrder(d, spaces) ==
    SelectSeq([i \in 1..Len(spaces) |->
                  [key |-> spaces[i].descriptor.name,
                   value |-> DictGet(d, spaces[i].descriptor.name)]],
              LAMBDA entry : HasKey(d, entry.key))

\* running[t].at is the entry thread t inserts next, 0 before its clear and after its
\* loop; running[t].done says its call has returned; seen records a clear made while
\* another thread was in its loop
InitThreads ==
    /\ library = init_color_space_library(<<>>)
    /\ loaded = TRUE
    /\ inits = 0
    /\ call = [op |-> "import"]
    /\ result = None
    /\ running = [t \in Threads |-> [at |-> 0, done |-> FALSE]]
    /\ held = None
    /\ seen = [overlapped |-> FALSE]

\* the position after a dict operation: the loop has ended when no entry is next
Step(at) == [at |-> at, done |-> at = 0]

\* _color_space_library.clear() in thread t
ThreadClear(t, spaces) ==
    /\ running[t].at = 0
    /\ ~running[t].done
    /\ library' = DictClear(library)
    /\ running' = [running EXCEPT ![t] = Step(NextEntry(spaces, 0))]
    /\ inits' = inits + 1
    /\ seen' = [overlapped |-> seen.overlapped \/ \E u \in Threads : running[u].at > 1]
    /\ UNCHANGED <<loaded, call, result, held>>

\* _color_space_library[name] = ColorSpace(descriptor) in thread t
ThreadInsert(t, spaces) ==
    /\ running[t].at > 0
    /\ library' = InTableOrder(DictSet(library, spaces[running[t].at].descriptor.name,
                                       spaces[running[t].at]),
                               spaces)
    /\ running' = [running EXCEPT
                      ![t] = Step(NextEntry(spaces, running[t].at))]
    /\ UNCHANGED <<loaded, inits, call, result, held, seen>>

ThreadStep(spaces) == \E t \in Threads : ThreadClear(t, spaces) \/ ThreadInsert(t, spaces)

NextThreads == ThreadStep(Constructed)

SpecThreads == InitThreads /\ [][NextThreads]_vars

KeySet(d) == {d[i].key : i \in 1..Len(d)}

\* C22: when several init_color_space_library calls run concurrently, their clear and
\* insert steps interleaved in any order, then once all of them have completed the
\* registry's keys are exactly the 18 built-in names, none missing and none extra.
C22_AllNamesAfterConcurrentInit ==
    (\A t \in Threads : running[t].done) =>
        /\ KeySet(library) = BuiltinNames
        /\ Len(library) = Len(COLOR_SPACES)
        /\ \A i \in 1..Len(library) : library[i].value.descriptor.name = library[i].key

\* all calls have completed, one having cleared the registry while another was in its loop
C22_Witness ==
    /\ \A t \in Threads : running[t].done
    /\ seen.overlapped
    /\ inits = MaxThreads
    /\ KeySet(library) = BuiltinNames

(***************************************************************************)
(* A caller keeping the ColorSpace a lookup returned and converting with   *)
(* it, while init_color_space_library runs in another thread.              *)
(***************************************************************************)
HandleNames == {"sRGB", "g22_ap1"}

HandleColors == {RGB(Lit(1, 2), Lit(1, 50), Lit(3, 4)), RGB(FOne, Lit(1, 4), Zero)}

InitHandle ==
    /\ library = init_color_space_library(<<>>)
    /\ loaded = TRUE
    /\ inits = 0
    /\ call = [op |-> "import"]
    /\ result = None
    /\ running = 0
    /\ held = None
    /\ seen = None

\* cs = get_named_color_space(name), kept by the caller from then on; got is the value
\* of the object at that moment
KeepNamed(name) ==
    /\ held = None
    /\ HasKey(library, name)
    /\ call' = [op |-> "get_named_color_space", name |-> name,
                got |-> get_named_color_space(library, name), inits |-> inits]
    /\ result' = get_named_color_space(library, name)
    /\ held' = Reference([key |-> name], "self", None, 0)
    /\ UNCHANGED <<library, loaded, inits, running, seen>>

\* _color_space_library.clear(): the object the caller keeps is no longer in the dict
HandleInitClear(spaces) ==
    /\ running = 0
    /\ inits < MaxInits
    /\ library' = DictClear(library)
    /\ running' = NextEntry(spaces, 0)
    /\ inits' = inits + 1
    /\ held' = Detached(library, held)
    /\ UNCHANGED <<loaded, call, result, seen>>

\* _color_space_library[name] = ColorSpace(descriptor): a new object each time
HandleInitInsert(spaces) ==
    /\ running > 0
    /\ library' = DictSet(library, spaces[running].descriptor.name, spaces[running])
    /\ running' = NextEntry(spaces, running)
    /\ UNCHANGED <<loaded, inits, call, result, held, seen>>

\* rgb_to_xyz(cs, rgb) up to linear_rgb = RGB(cs.to_linear(...), ...)
RgbToXyzBegin(rgb) ==
    /\ held # None
    /\ seen = None
    /\ seen' = [rgb |-> rgb, linear_rgb |-> ToLinearRGB(Target(library, held), rgb),
                during |-> running > 0]
    /\ result' = Pending
    /\ UNCHANGED <<library, loaded, inits, call, running, held>>

\* rgb_to_xyz(cs, rgb) from matrix = cs.get_rgb_to_xyz_matrix() to its return
RgbToXyzEnd ==
    /\ held # None
    /\ seen # None
    /\ result = Pending
    /\ result' = RgbToXyzLinear(get_rgb_to_xyz_matrix(Target(library, held)), seen.linear_rgb)
    /\ seen' = [seen EXCEPT !.during = @ \/ running > 0]
    /\ UNCHANGED <<library, loaded, inits, call, running, held>>

\* cs == get_named_color_space(name), name being the name cs was looked up by
EqualsNamed ==
    /\ held # None
    /\ HasKey(library, call.name)
    /\ result' = Bool(ColorSpaceEq(Target(library, held), get_named_color_space(library, call.name)))
    /\ seen' = None
    /\ UNCHANGED <<library, loaded, inits, call, running, held>>

NextHandle ==
    \/ \E name \in HandleNames : KeepNamed(name)
    \/ HandleInitClear(Constructed)
    \/ HandleInitInsert(Constructed)
    \/ \E rgb \in HandleColors : RgbToXyzBegin(rgb)
    \/ RgbToXyzEnd
    \/ EqualsNamed

SpecHandle == InitHandle /\ [][NextHandle]_vars

\* C23: a ColorSpace obtained from get_named_color_space stays valid across later init
\* calls: init puts newly built objects in the registry and writes nothing to the old
\* ones, so the object kept is as it was when looked up, compares equal to what a lookup
\* after the re-init returns, and converts as it did and as the new object does, also
\* when the conversion runs while init does.
C23_HandleStaysValid ==
    held # None =>
        /\ Target(library, held) = call.got
        /\ "bool" \in DOMAIN result => result = Bool(TRUE)
        /\ "x" \in DOMAIN result =>
               /\ result = rgb_to_xyz(call.got, seen.rgb)
               /\ HasKey(library, call.name) =>
                      result = rgb_to_xyz(get_named_color_space(library, call.name), seen.rgb)

\* the object was looked up before a re-init, the conversion ran while a later init did
C23_Witness ==
    /\ held # None
    /\ held.at = None
    /\ inits > call.inits
    /\ "x" \in DOMAIN result
    /\ seen.during
    /\ HasKey(library, call.name)
    /\ result = rgb_to_xyz(get_named_color_space(library, call.name), seen.rgb)

\* the old object compared equal to the one a lookup returns after the re-init
C23_WitnessEqual ==
    /\ held # None
    /\ held.at = None
    /\ running = 0
    /\ inits > call.inits
    /\ result = Bool(TRUE)

\* C24: the registry is populated by the import, with no call of
\* init_color_space_library: in every state of single-threaded use after the import (any
\* sequence of init, lookups, listings, ad hoc creations and conversions) a lookup of each
\* of the 18 built-in names returns a ColorSpace whose descriptor's name is the name looked
\* up, and registered_color_space_names returns exactly those 18 names.
C24_PopulatedAtImport ==
    loaded =>
        /\ \A name \in BuiltinNames :
              /\ IsColorSpace(get_named_color_space(library, name))
              /\ get_named_color_space(library, name).descriptor.name = name
        /\ (call.op = "get_named_color_space" /\ call.name \in BuiltinNames) =>
               (IsColorSpace(result) /\ result.descriptor.name = call.name)
        /\ call.op = "registered_color_space_names" =>
               /\ Len(result.list) = Cardinality(BuiltinNames)
               /\ {result.list[i] : i \in 1..Len(result.list)} = BuiltinNames

\* a lookup and no call of init_color_space_library before it
C24_Witness ==
    /\ loaded
    /\ inits = 0
    /\ call.op = "get_named_color_space"
    /\ call.name = "raw"
    /\ IsColorSpace(result)
    /\ result.descriptor.name = "raw"

\* to_linear(t) takes its linear segment
DecodesLinear(self, t) == FLt(t, self.k0)

\* from_linear(u) takes its linear segment
EncodesLinear(self, u) == FLt(u, FDiv(self.k0, self.phi))

\* C25: for every registered space and every t, negative ones included, to_linear takes
\* its linear segment (t < k0) exactly when from_linear applied to to_linear(t) takes its
\* linear segment (value < k0 / phi), so from_linear inverts the segment to_linear used;
\* a negative t takes the linear segment both times and reaches no power function.
C25_SegmentsAgree ==
    (call.op = "to_linear" /\ seen # None /\ call.registered) =>
        /\ DecodesLinear(call.self, call.t) <=> EncodesLinear(call.self, seen.mid)
        /\ NearBy(result, call.t, FMul(Lit(1, 10^6), FAdd(FOne, FAbs(call.t))))
        /\ FLt(call.t, Zero) =>
               /\ DecodesLinear(call.self, call.t)
               /\ seen.mid = FDiv(call.t, call.self.phi)
               /\ EncodesLinear(call.self, seen.mid)
               /\ result = FMul(seen.mid, call.self.phi)

\* sRGB at its breakpoint k0: both calls take the power segment
C25_Witness ==
    /\ call.op = "to_linear"
    /\ seen # None
    /\ call.self.descriptor.name = "sRGB"
    /\ call.value = <<0, 0>>
    /\ call.t = call.self.k0
    /\ ~DecodesLinear(call.self, call.t)
    /\ ~EncodesLinear(call.self, seen.mid)

\* sRGB one float below k0: both calls take the linear segment
C25_WitnessBelow ==
    /\ call.op = "to_linear"
    /\ seen # None
    /\ call.self.descriptor.name = "sRGB"
    /\ call.value = <<-1, 0>>
    /\ FLt(call.t, call.self.k0)
    /\ EncodesLinear(call.self, seen.mid)

\* a negative number in a space whose k0 is 0
C25_WitnessNegative ==
    /\ call.op = "to_linear"
    /\ seen # None
    /\ call.self.descriptor.name = "g22_rec709"
    /\ call.value = <<-1, 4>>
    /\ result = call.t


=========================================================================
